---- MODULE Spec2Model ----
(***************************************************************************)
(* A model of the transactional state track of the radix engine            *)
(* (radix-engine/src/engine/track.rs): the overlay between a transaction   *)
(* and the substate store, its two borrow paths, its keyed values and the  *)
(* receipt it produces at commit.                                          *)
(*                                                                         *)
(* A client calls the track's operations one at a time, in any order and   *)
(* with any arguments of a small pool; `last` records the latest call and  *)
(* what it returned.  A panic of the code ends the transaction.            *)
(***************************************************************************)
EXTENDS Integers, Sequences, FiniteSets, TLC

\* ------------------------------------------------------------------ bounds

\* The number of track calls of one transaction that the model explores.
MaxOps == 4

\* ------------------------------------------------------- addresses, values

\* enum Address: a tag and up to two parts (0 pads a missing second part).
Resource(r) == <<"Resource", r, 0>>
GlobalComponent(c) == <<"GlobalComponent", c, 0>>
Package(p) == <<"Package", p, 0>>
NonFungibleSet(r) == <<"NonFungibleSet", r, 0>>
KeyValueStore(c, id) == <<"KeyValueStore", c, id>>
Vault(c, id) == <<"Vault", c, id>>
LocalComponent(c, child) == <<"LocalComponent", c, child>>

NoAddress == <<"-", 0, 0>>

\* scrypto_encode of one address part: a self-delimiting, typed run of bytes,
\* kept as one token.  VaultId and KeyValueStoreId are both (Hash, u32) and
\* encode alike; a raw byte is a token of its own.
EncResourceAddress(r) == <<"ResourceAddress", r>>
EncComponentAddress(c) == <<"ComponentAddress", c>>
EncPackageAddress(p) == <<"PackageAddress", p>>
EncHashU32(id) == <<"(Hash,u32)", id>>
Byte(b) == <<"u8", b>>

\* resource_to_non_fungible_space!: the encoded resource address and a 0 byte.
resource_to_non_fungible_space(r) == <<EncResourceAddress(r), Byte(0)>>

\* Address::encode
AddressEncode(a) ==
    CASE a[1] = "Resource" -> <<EncResourceAddress(a[2])>>
      [] a[1] = "GlobalComponent" -> <<EncComponentAddress(a[2])>>
      [] a[1] = "Package" -> <<EncPackageAddress(a[2])>>
      [] a[1] = "Vault" -> <<EncComponentAddress(a[2]), EncHashU32(a[3])>>
      [] a[1] = "LocalComponent" -> <<EncComponentAddress(a[2]), EncComponentAddress(a[3])>>
      [] a[1] = "NonFungibleSet" -> resource_to_non_fungible_space(a[2])
      [] a[1] = "KeyValueStore" -> <<EncComponentAddress(a[2]), EncHashU32(a[3])>>

\* enum SubstateValue: the variant and its content.  For the two Option
\* variants data 0 is None and data d > 0 is Some(d); for a Resource the data
\* is the manager's resource type (see resource_type).
SubstateValue(kind, data) == [kind |-> kind, data |-> data]
NoValue == SubstateValue("-", 0)

\* ResourceManager::resource_type of a Resource value.
resource_type(v) == IF v.data = 1 THEN "NonFungible" ELSE "Fungible"

\* SubstateValue::encode: scrypto_encode of the content; the variant is not
\* part of the bytes, so the None of both Option variants encodes alike.
ValueEncode(v) ==
    CASE v.kind = "Resource" -> <<"ResourceManager", v.data>>
      [] v.kind = "Package" -> <<"ValidatedPackage", v.data>>
      [] v.kind = "Component" -> <<"Component", v.data>>
      [] v.kind = "Vault" -> <<"Vault", v.data>>
      [] v.kind = "NonFungible" ->
            IF v.data = 0 THEN <<"Option::None", 0>> ELSE <<"Option::Some(NonFungible)", v.data>>
      [] v.kind = "KeyValueStoreEntry" ->
            IF v.data = 0 THEN <<"Option::None", 0>> ELSE <<"Option::Some(Vec<u8>)", v.data>>

\* scrypto_decode::<T>(bytes).unwrap() for the content type T of a variant:
\* the bytes must be an encoding of a T.
DecodesAs(kind, bytes) == \E d \in 0..3 : ValueEncode(SubstateValue(kind, d)) = bytes
scrypto_decode(kind, bytes) == SubstateValue(kind, bytes[2])

\* ------------------------------------------------------------ IndexMap

\* IndexMap<K, V> as the sequence of its entries, in the map's own order.
IndexOf(m, k) == IF \E i \in 1..Len(m) : m[i].k = k
                 THEN CHOOSE i \in 1..Len(m) : m[i].k = k
                 ELSE 0
IndexMapContains(m, k) == IndexOf(m, k) # 0
IndexMapGet(m, k) == m[IndexOf(m, k)].v
\* insert: an existing key keeps its place and takes the value, a new key is appended.
IndexMapInsert(m, k, v) ==
    IF IndexMapContains(m, k)
    THEN [m EXCEPT ![IndexOf(m, k)] = [k |-> k, v |-> v]]
    ELSE Append(m, [k |-> k, v |-> v])
\* remove is swap_remove: the last entry takes the place of the removed one.
IndexMapRemove(m, k) ==
    LET i == IndexOf(m, k)
        n == Len(m)
    IN IF i = 0 THEN m ELSE SubSeq([m EXCEPT ![i] = m[n]], 1, n - 1)

\* IndexSet<K> as the sequence of its members; insert appends a new member.
IndexSetIndexOf(s, k) == IF \E i \in 1..Len(s) : s[i] = k
                         THEN CHOOSE i \in 1..Len(s) : s[i] = k
                         ELSE 0
IndexSetInsert(s, k) == IF IndexSetIndexOf(s, k) # 0 THEN s ELSE Append(s, k)

\* HashMap<K, V> as a function; insert adds or replaces, remove drops the key.
HashMapInsert(f, k, v) == [x \in DOMAIN f \cup {k} |-> IF x = k THEN v ELSE f[x]]
HashMapRemove(f, k) == [x \in DOMAIN f \ {k} |-> f[x]]
EmptyMap == [x \in {} |-> NoValue]


\* ------------------------------------------------------------ the store

\* PhysicalSubstateId(Hash, u32)
PhysicalSubstateId(hash, index) == <<hash, index>>

\* The Hash of the transaction that wrote the store's substates.
StoreHash == 1
\* The hash of the transaction the track runs.
TxHash == 2

\* The addresses and keys the client works with: component 1 and its state are
\* in the store, vault 1 of component 1 is not; key 1 of resource 1's
\* non-fungibles is in the store, key 2 is not; the key-value store 1 of
\* component 1 is unknown to the store.
C1 == GlobalComponent(1)
V11 == Vault(1, 1)
NFS1 == NonFungibleSet(1)
KVS11 == KeyValueStore(1, 1)
Key1 == <<Byte(1)>>
Key2 == <<Byte(2)>>

\* ReadableSubstateStore: substates by encoded key (Substate {value, phys_id}),
\* the spaces' physical ids, the epoch.
InitialStore ==
    [substates |->
        (AddressEncode(C1) :> [value |-> ValueEncode(SubstateValue("Component", 1)),
                               phys_id |-> PhysicalSubstateId(StoreHash, 7)])
        @@ (AddressEncode(NFS1) \o Key1 :>
                              [value |-> ValueEncode(SubstateValue("NonFungible", 1)),
                               phys_id |-> PhysicalSubstateId(StoreHash, 8)]),
     spaces |-> (AddressEncode(NFS1) :> PhysicalSubstateId(StoreHash, 9)),
     epoch |-> 0]

\* ------------------------------------------------------------ Decimal

\* A Decimal is an i128 count of 10^-18 units. The amounts of the resource
\* manager (the mint cap is 10^29 of them) are beyond the model checker's
\* integers, so an amount is held in four limbs of nine decimal digits:
\* raw = d[1] + d[2] * 10^9 + d[3] * 10^18 + d[4] * 10^27, the lower three in
\* 0..10^9-1 and the top one carrying the sign. The i128 itself overflows only
\* above 1.7 * 10^38, which no run of the bounded model comes near.
LimbBase == 1000000000
LimbDigits == 9

DecNormalize(x) ==
    LET c1 == x[1] \div LimbBase
        c2 == (x[2] + c1) \div LimbBase
        c3 == (x[3] + c2) \div LimbBase
    IN <<x[1] % LimbBase, (x[2] + c1) % LimbBase, (x[3] + c2) % LimbBase, x[4] + c3>>

\* Decimal: +, -, is_negative, >
DecAdd(a, b) == DecNormalize(<<a[1] + b[1], a[2] + b[2], a[3] + b[3], a[4] + b[4]>>)
DecSub(a, b) == DecNormalize(<<a[1] - b[1], a[2] - b[2], a[3] - b[3], a[4] - b[4]>>)
DecIsNegative(a) == a[4] < 0
DecGreater(a, b) == DecIsNegative(DecSub(b, a))

\* Decimal::from of a whole number billions * 10^9 + units, and of a count of
\* 10^-18 units below 10^9.
DecFromWhole(billions, units) == <<0, 0, units, billions>>
DecFromRaw(raw) == DecNormalize(<<raw, 0, 0, 0>>)
DecZero == DecFromWhole(0, 0)

RECURSIVE Pow10(_)
Pow10(n) == IF n = 0 THEN 1 ELSE 10 * Pow10(n - 1)

\* amount.0 % 10i128.pow(k) == 0, for k in 0..18: 10^18 divides the two upper
\* limbs' weights, so the two lower limbs decide.
DecDivisibleByPow10(a, k) ==
    IF k <= LimbDigits
    THEN a[1] % Pow10(k) = 0
    ELSE a[1] = 0 /\ a[2] % Pow10(k - LimbDigits) = 0

\* ------------------------------------------------ the resource manager's data

\* scrypto AccessRule and Mutability (what the caller passes), and the engine's
\* MethodAuthorization (what the manager stores); convert_auth! turns the first
\* into the second.
AccessRuleOf(tag, badge) == <<"AccessRule", tag, badge>>
LOCKED == <<"LOCKED">>
MUTABLE(method_auth) == <<"MUTABLE", method_auth>>
MethodAuthorization(tag, badge) == <<"MethodAuthorization", tag, badge>>
DenyAll == MethodAuthorization("DenyAll", 0)
AllowAll == MethodAuthorization("AllowAll", 0)
Unsupported == MethodAuthorization("Unsupported", 0)
convert_auth(rule) == MethodAuthorization(rule[2], rule[3])

\* MethodAccessRule::new with a bug: a LOCKED rule can be updated by whoever
\* satisfies it.
MethodAccessRuleNew_unlocked(entry) ==
    [auth |-> convert_auth(entry[1]),
     update_auth |-> IF entry[2] = LOCKED THEN convert_auth(entry[1])
                                        ELSE convert_auth(entry[2][2])]

\* MethodAccessRule::new
MethodAccessRuleNew(entry) ==
    [auth |-> convert_auth(entry[1]),
     update_auth |-> IF entry[2] = LOCKED THEN DenyAll ELSE convert_auth(entry[2][2])]

\* MethodAccessRule::get_method_auth, get_update_auth
get_method_auth(rule) == rule.auth
get_update_auth(rule) == rule.update_auth

\* MethodAccessRule::lock with a bug: the rule's auth is closed too.
MethodAccessRuleLock_denies(rule) == [auth |-> DenyAll, update_auth |-> DenyAll]

\* MethodAccessRule::update, lock
MethodAccessRuleUpdate(rule, method_auth) == [rule EXCEPT !.auth = convert_auth(method_auth)]
MethodAccessRuleLock(rule) == [rule EXCEPT !.update_auth = DenyAll]

\* enum ResourceMethodAuthKey, ResourceMethodRule, ResourceType
AuthKeys == {"Mint", "Burn", "Withdraw", "Deposit", "UpdateMetadata", "UpdateNonFungibleData"}
Public == <<"Public", "-">>
Protected(auth_key) == <<"Protected", auth_key>>
Fungible(divisibility) == [type |-> "Fungible", divisibility |-> divisibility]
NonFungibleType == [type |-> "NonFungible", divisibility |-> 0]

\* ResourceManager::new: the two method tables
VaultMethodTable ==
    [m \in {"take", "put", "amount", "resource_address", "non_fungible_ids", "create_proof",
            "create_proof_by_amount", "create_proof_by_ids", "take_non_fungibles"} |->
        CASE m = "take" -> Protected("Withdraw")
          [] m = "put" -> Protected("Deposit")
          [] m = "take_non_fungibles" -> Protected("Withdraw")
          [] OTHER -> Public]
MethodTable ==
    [m \in {"mint", "burn", "update_metadata", "create_bucket", "metadata", "resource_type",
            "total_supply", "create_vault", "update_non_fungible_data",
            "non_fungible_exists", "non_fungible_data"} |->
        CASE m = "mint" -> Protected("Mint")
          [] m = "burn" -> Protected("Burn")
          [] m = "update_metadata" -> Protected("UpdateMetadata")
          [] m = "update_non_fungible_data" -> Protected("UpdateNonFungibleData")
          [] OTHER -> Public]

\* ResourceManager::new: the default of an auth key the caller left out
DefaultAuth(auth_entry_key) ==
    IF auth_entry_key \in {"Withdraw", "Deposit"}
    THEN <<AccessRuleOf("AllowAll", 0), LOCKED>>
    ELSE <<AccessRuleOf("DenyAll", 0), LOCKED>>

\* ResourceManager::new
ResourceManagerNew(type, metadata, auth) ==
    [resource_type |-> type,
     metadata |-> metadata,
     method_table |-> MethodTable,
     vault_method_table |-> VaultMethodTable,
     authorization |->
         [k \in AuthKeys |->
             MethodAccessRuleNew(IF k \in DOMAIN auth THEN auth[k] ELSE DefaultAuth(k))],
     total_supply |-> DecZero]

\* ------------------------------------------------------------ the state

VARIABLES
    substate_store,            \* the store the track reads
    id_allocator,              \* ids handed out so far, per kind
    new_addresses,             \* Vec<Address>
    borrowed_substates,        \* HashSet<Address>: borrow_global_mut_value's
    borrowed_substates_2,      \* HashMap<Address, SubstateValue>: take_lock's
    read_substates,            \* IndexMap<Address, SubstateValue>: the read cache
    downed_substates,          \* Vec<PhysicalSubstateId>
    down_virtual_substates,    \* Vec<VirtualSubstateId>
    up_substates,              \* IndexMap<Vec<u8>, SubstateValue>
    up_virtual_substate_space, \* IndexSet<Vec<u8>>
    phase,                     \* "live", "committed" (to_receipt ran) or "panicked"
    receipt,                   \* the TrackReceipt of to_receipt
    last,                      \* the latest call: op, arguments, result
    nops,                      \* the number of calls made
    last_write,                \* per address, the value last locked or written under a lock
    key_writes,                \* per (parent, key), the value last set and the number of sets
    resource_manager,          \* a ResourceManager
    non_fungibles,             \* the non-fungibles the system API holds, by id
    native_calls,              \* the calls main and static_main made on the system API
    rtn                        \* what the latest main or static_main returned

track == <<id_allocator, new_addresses, borrowed_substates, borrowed_substates_2,
           read_substates, downed_substates, down_virtual_substates, up_substates,
           up_virtual_substate_space>>

resource == <<resource_manager, non_fungibles, native_calls, rtn>>

vars == <<substate_store, track, phase, receipt, last, nops, last_write, key_writes, resource>>

NoReceipt == [borrowed |-> {}, new_addresses |-> <<>>, substate_operations |-> <<>>]

Call(op, addr, key, res, val) == [op |-> op, addr |-> addr, key |-> key, res |-> res, val |-> val]

\* Track::new
TrackNew ==
    /\ substate_store = InitialStore
    /\ id_allocator = [package |-> 0, component |-> 0, resource |-> 0, vault |-> 0, kv_store |-> 0]
    /\ new_addresses = <<>>
    /\ borrowed_substates = {}
    /\ borrowed_substates_2 = EmptyMap
    /\ read_substates = EmptyMap
    /\ downed_substates = <<>>
    /\ down_virtual_substates = <<>>
    /\ up_substates = <<>>
    /\ up_virtual_substate_space = <<>>
    /\ phase = "live"
    /\ receipt = NoReceipt
    /\ last = Call("new", NoAddress, <<>>, "Ok", NoValue)
    /\ nops = 0
    /\ last_write = EmptyMap
    /\ key_writes = EmptyMap

\* A track, and beside it a resource manager that no call of the track touches.
Init ==
    /\ TrackNew
    /\ resource_manager = ResourceManagerNew(Fungible(0), EmptyMap, EmptyMap)
    /\ non_fungibles = EmptyMap
    /\ native_calls = <<>>
    /\ rtn = <<>>

\* ReadableSubstateStore::get_substate
HasSubstate(k) == k \in DOMAIN substate_store.substates
get_substate(k) == substate_store.substates[k]

\* A call can be made on a track that neither panicked nor was consumed.
CanCall == phase = "live" /\ nops < MaxOps

\* The call returns: what the client sees of it.
Return(op, addr, key, res, val) ==
    /\ last' = Call(op, addr, key, res, val)
    /\ nops' = nops + 1
    /\ phase' = IF res = "panic" THEN "panicked" ELSE phase

\* A panic unwinds the transaction: nothing of the track is used afterwards.
Panic(op, addr, key) ==
    /\ Return(op, addr, key, "panic", NoValue)
    /\ UNCHANGED <<track, last_write>>

\* ------------------------------------------------ the lock/release path

\* take_lock with a bug: a substate faulted in from the store records no Down.
take_lock_no_down(address) ==
    LET k == AddressEncode(address) IN
    /\ CanCall
    /\ UNCHANGED <<substate_store, resource, receipt, key_writes>>
    /\ IF IndexMapContains(up_substates, k)
       THEN /\ up_substates' = IndexMapRemove(up_substates, k)
            /\ borrowed_substates_2' =
                   HashMapInsert(borrowed_substates_2, address, IndexMapGet(up_substates, k))
            /\ last_write' = HashMapInsert(last_write, address, IndexMapGet(up_substates, k))
            /\ Return("take_lock", address, <<>>, "Ok", NoValue)
            /\ UNCHANGED <<id_allocator, new_addresses, borrowed_substates, read_substates,
                           downed_substates, down_virtual_substates, up_virtual_substate_space>>
       ELSE IF address \in DOMAIN borrowed_substates_2
       THEN /\ Return("take_lock", address, <<>>, "Reentrancy", NoValue)
            /\ UNCHANGED <<track, last_write>>
       ELSE IF HasSubstate(k)
       THEN LET substate == get_substate(k)
                kind == CASE address[1] \in {"GlobalComponent", "LocalComponent"} -> "Component"
                          [] address[1] = "Resource" -> "Resource"
                          [] address[1] = "Vault" -> "Vault"
                          [] OTHER -> "-"
            IN IF kind # "-" /\ DecodesAs(kind, substate.value)
               THEN /\ downed_substates' = downed_substates
                    /\ borrowed_substates_2' =
                           HashMapInsert(borrowed_substates_2, address,
                                         scrypto_decode(kind, substate.value))
                    /\ last_write' = HashMapInsert(last_write, address,
                                                   scrypto_decode(kind, substate.value))
                    /\ Return("take_lock", address, <<>>, "Ok", NoValue)
                    /\ UNCHANGED <<id_allocator, new_addresses, borrowed_substates,
                                   read_substates, down_virtual_substates, up_substates,
                                   up_virtual_substate_space>>
               ELSE Panic("take_lock", address, <<>>)
       ELSE /\ Return("take_lock", address, <<>>, "NotFound", NoValue)
            /\ UNCHANGED <<track, last_write>>

\* Track::take_lock
take_lock(address) ==
    LET k == AddressEncode(address) IN
    /\ CanCall
    /\ UNCHANGED <<substate_store, resource, receipt, key_writes>>
    /\ IF IndexMapContains(up_substates, k)
       THEN /\ up_substates' = IndexMapRemove(up_substates, k)
            /\ borrowed_substates_2' =
                   HashMapInsert(borrowed_substates_2, address, IndexMapGet(up_substates, k))
            /\ last_write' = HashMapInsert(last_write, address, IndexMapGet(up_substates, k))
            /\ Return("take_lock", address, <<>>, "Ok", NoValue)
            /\ UNCHANGED <<id_allocator, new_addresses, borrowed_substates, read_substates,
                           downed_substates, down_virtual_substates, up_virtual_substate_space>>
       ELSE IF address \in DOMAIN borrowed_substates_2
       THEN /\ Return("take_lock", address, <<>>, "Reentrancy", NoValue)
            /\ UNCHANGED <<track, last_write>>
       ELSE IF HasSubstate(k)
       THEN LET substate == get_substate(k)
                kind == CASE address[1] \in {"GlobalComponent", "LocalComponent"} -> "Component"
                          [] address[1] = "Resource" -> "Resource"
                          [] address[1] = "Vault" -> "Vault"
                          [] OTHER -> "-"
            IN IF kind # "-" /\ DecodesAs(kind, substate.value)
               THEN /\ downed_substates' = Append(downed_substates, substate.phys_id)
                    /\ borrowed_substates_2' =
                           HashMapInsert(borrowed_substates_2, address,
                                         scrypto_decode(kind, substate.value))
                    /\ last_write' = HashMapInsert(last_write, address,
                                                   scrypto_decode(kind, substate.value))
                    /\ Return("take_lock", address, <<>>, "Ok", NoValue)
                    /\ UNCHANGED <<id_allocator, new_addresses, borrowed_substates,
                                   read_substates, down_virtual_substates, up_substates,
                                   up_virtual_substate_space>>
               ELSE Panic("take_lock", address, <<>>)
       ELSE /\ Return("take_lock", address, <<>>, "NotFound", NoValue)
            /\ UNCHANGED <<track, last_write>>

\* write_value with a bug: it reports Ok and leaves the borrowed value as it was.
write_value_lost(address, value) ==
    /\ CanCall
    /\ UNCHANGED <<substate_store, resource, receipt, key_writes, track>>
    /\ IF address \notin DOMAIN borrowed_substates_2
       THEN /\ Return("write_value", address, <<>>, "NotFound", NoValue)
            /\ UNCHANGED last_write
       ELSE /\ last_write' = HashMapInsert(last_write, address, value)
            /\ Return("write_value", address, <<>>, "Ok", NoValue)

\* write_value with a bug: an address that is not locked is inserted.
write_value_upserts(address, value) ==
    /\ CanCall
    /\ UNCHANGED <<substate_store, resource, receipt, key_writes>>
    /\ borrowed_substates_2' = HashMapInsert(borrowed_substates_2, address, value)
    /\ last_write' = HashMapInsert(last_write, address, value)
    /\ Return("write_value", address, <<>>, "Ok", NoValue)
    /\ UNCHANGED <<id_allocator, new_addresses, borrowed_substates, read_substates,
                   downed_substates, down_virtual_substates, up_substates,
                   up_virtual_substate_space>>

\* Track::write_value
write_value(address, value) ==
    /\ CanCall
    /\ UNCHANGED <<substate_store, resource, receipt, key_writes>>
    /\ IF address \notin DOMAIN borrowed_substates_2
       THEN /\ Return("write_value", address, <<>>, "NotFound", NoValue)
            /\ UNCHANGED <<track, last_write>>
       ELSE /\ borrowed_substates_2' = HashMapInsert(borrowed_substates_2, address, value)
            /\ last_write' = HashMapInsert(last_write, address, value)
            /\ Return("write_value", address, <<>>, "Ok", NoValue)
            /\ UNCHANGED <<id_allocator, new_addresses, borrowed_substates, read_substates,
                           downed_substates, down_virtual_substates, up_substates,
                           up_virtual_substate_space>>

\* release_lock with a bug: the borrowed value is dropped, not moved back to up.
release_lock_drop(address) ==
    /\ CanCall
    /\ UNCHANGED <<substate_store, resource, receipt, key_writes>>
    /\ IF address \notin DOMAIN borrowed_substates_2
       THEN Panic("release_lock", address, <<>>)
       ELSE /\ borrowed_substates_2' = HashMapRemove(borrowed_substates_2, address)
            /\ Return("release_lock", address, <<>>, "Ok", NoValue)
            /\ UNCHANGED <<id_allocator, new_addresses, borrowed_substates, read_substates,
                           downed_substates, down_virtual_substates, up_substates,
                           up_virtual_substate_space, last_write>>

\* Track::release_lock
release_lock(address) ==
    /\ CanCall
    /\ UNCHANGED <<substate_store, resource, receipt, key_writes>>
    /\ IF address \notin DOMAIN borrowed_substates_2
       THEN Panic("release_lock", address, <<>>)
       ELSE /\ borrowed_substates_2' = HashMapRemove(borrowed_substates_2, address)
            /\ up_substates' = IndexMapInsert(up_substates, AddressEncode(address),
                                              borrowed_substates_2[address])
            /\ Return("release_lock", address, <<>>, "Ok", NoValue)
            /\ UNCHANGED <<id_allocator, new_addresses, borrowed_substates, read_substates,
                           downed_substates, down_virtual_substates,
                           up_virtual_substate_space, last_write>>


\* ------------------------------------------- the borrow_mut/return path

\* Track::borrow_global_mut_value
borrow_global_mut_value(address) ==
    LET k == AddressEncode(address) IN
    /\ CanCall
    /\ UNCHANGED <<substate_store, resource, receipt, last_write, key_writes>>
    /\ IF IndexMapContains(up_substates, k)
       THEN /\ up_substates' = IndexMapRemove(up_substates, k)
            /\ borrowed_substates' = borrowed_substates \cup {address}
            /\ Return("borrow_global_mut_value", address, <<>>, "Ok",
                      IndexMapGet(up_substates, k))
            /\ UNCHANGED <<id_allocator, new_addresses, borrowed_substates_2, read_substates,
                           downed_substates, down_virtual_substates, up_virtual_substate_space>>
       ELSE IF address \in borrowed_substates
       THEN /\ Return("borrow_global_mut_value", address, <<>>, "Reentrancy", NoValue)
            /\ UNCHANGED track
       ELSE IF HasSubstate(k)
       THEN LET substate == get_substate(k)
                kind == CASE address[1] = "GlobalComponent" -> "Component"
                          [] address[1] = "Resource" -> "Resource"
                          [] address[1] = "Vault" -> "Vault"
                          [] address[1] = "Package" -> "Package"
                          [] OTHER -> "-"
            IN IF kind # "-" /\ DecodesAs(kind, substate.value)
               THEN /\ downed_substates' = Append(downed_substates, substate.phys_id)
                    /\ borrowed_substates' = borrowed_substates \cup {address}
                    /\ Return("borrow_global_mut_value", address, <<>>, "Ok",
                              scrypto_decode(kind, substate.value))
                    /\ UNCHANGED <<id_allocator, new_addresses, borrowed_substates_2,
                                   read_substates, down_virtual_substates, up_substates,
                                   up_virtual_substate_space>>
               ELSE /\ Return("borrow_global_mut_value", address, <<>>, "panic", NoValue)
                    /\ UNCHANGED track
       ELSE /\ Return("borrow_global_mut_value", address, <<>>, "NotFound", NoValue)
            /\ UNCHANGED track

\* Track::return_borrowed_global_mut_value
return_borrowed_global_mut_value(address, value) ==
    /\ CanCall
    /\ UNCHANGED <<substate_store, resource, receipt, key_writes>>
    /\ IF address \notin borrowed_substates
       THEN Panic("return_borrowed_global_mut_value", address, <<>>)
       ELSE /\ borrowed_substates' = borrowed_substates \ {address}
            /\ up_substates' = IndexMapInsert(up_substates, AddressEncode(address), value)
            /\ Return("return_borrowed_global_mut_value", address, <<>>, "Ok", NoValue)
            /\ UNCHANGED <<id_allocator, new_addresses, borrowed_substates_2, read_substates,
                           downed_substates, down_virtual_substates,
                           up_virtual_substate_space, last_write>>

\* ------------------------------------------------------------ creation

\* IdAllocator: the id of a kind is a function of the transaction hash, the
\* kind's tag and the kind's counter, which advances by one per call.
SpaceTag(kind) ==
    CASE kind = "package" -> 1 [] kind = "component" -> 2 [] kind = "resource" -> 3
      [] kind = "vault" -> 4 [] kind = "kv_store" -> 5
NewId(hash, kind, counter) == (hash * 10 + SpaceTag(kind)) * 10 + counter

\* ------------------------------------------------------------ id allocation

\* What a new_* call hands back: the kind of id and the id.
AllocatedId(kind, id) == SubstateValue(kind, id)

\* The track's id calls all have this shape: ask the id_allocator for the next
\* id of the kind under transaction_hash() and unwrap it.
AllocateId(op, kind) ==
    /\ CanCall
    /\ id_allocator' = [id_allocator EXCEPT ![kind] = @ + 1]
    /\ Return(op, NoAddress, <<>>, "Ok", AllocatedId(kind, NewId(TxHash, kind, id_allocator[kind])))
    /\ UNCHANGED <<substate_store, resource, receipt, last_write, key_writes, new_addresses, borrowed_substates,
                   borrowed_substates_2, read_substates, downed_substates,
                   down_virtual_substates, up_substates, up_virtual_substate_space>>

\* Track::new_package_address
new_package_address == AllocateId("new_package_address", "package")

\* Track::new_component_address
new_component_address == AllocateId("new_component_address", "component")

\* Track::new_resource_address
new_resource_address == AllocateId("new_resource_address", "resource")

\* Track::new_vault_id with a bug: the counter does not advance.
new_vault_id_stuck ==
    /\ CanCall
    /\ Return("new_vault_id", NoAddress, <<>>, "Ok",
              AllocatedId("vault", NewId(TxHash, "vault", id_allocator.vault)))
    /\ UNCHANGED <<substate_store, resource, receipt, last_write, key_writes, track>>

\* Track::new_vault_id
new_vault_id == AllocateId("new_vault_id", "vault")

\* Track::new_kv_store_id
new_kv_store_id == AllocateId("new_kv_store_id", "kv_store")

\* Track::create_uuid_value with a bug: the value is not staged in up_substates.
create_uuid_value_unstaged(value) ==
    /\ CanCall
    /\ UNCHANGED <<substate_store, resource, receipt, last_write, key_writes>>
    /\ IF value.kind = "Package"
       THEN LET address == Package(NewId(TxHash, "package", id_allocator.package)) IN
            /\ id_allocator' = [id_allocator EXCEPT !.package = @ + 1]
            /\ new_addresses' = Append(new_addresses, address)
            /\ Return("create_uuid_value", address, <<>>, "Ok", value)
            /\ UNCHANGED <<borrowed_substates, borrowed_substates_2, read_substates,
                           downed_substates, down_virtual_substates, up_substates,
                           up_virtual_substate_space>>
       ELSE IF value.kind = "Resource"
       THEN LET resource_address == NewId(TxHash, "resource", id_allocator.resource)
                address == Resource(resource_address)
            IN
            /\ id_allocator' = [id_allocator EXCEPT !.resource = @ + 1]
            /\ up_virtual_substate_space' =
                   IF resource_type(value) = "NonFungible"
                   THEN IndexSetInsert(up_virtual_substate_space,
                                       resource_to_non_fungible_space(resource_address))
                   ELSE up_virtual_substate_space
            /\ new_addresses' = Append(new_addresses, address)
            /\ Return("create_uuid_value", address, <<>>, "Ok", value)
            /\ UNCHANGED <<borrowed_substates, borrowed_substates_2, read_substates,
                           downed_substates, down_virtual_substates, up_substates>>
       ELSE Panic("create_uuid_value", NoAddress, <<>>)

\* Track::create_uuid_value
create_uuid_value(value) ==
    /\ CanCall
    /\ UNCHANGED <<substate_store, resource, receipt, last_write, key_writes>>
    /\ IF value.kind = "Package"
       THEN LET address == Package(NewId(TxHash, "package", id_allocator.package)) IN
            /\ id_allocator' = [id_allocator EXCEPT !.package = @ + 1]
            /\ new_addresses' = Append(new_addresses, address)
            /\ up_substates' = IndexMapInsert(up_substates, AddressEncode(address), value)
            /\ Return("create_uuid_value", address, <<>>, "Ok", value)
            /\ UNCHANGED <<borrowed_substates, borrowed_substates_2, read_substates,
                           downed_substates, down_virtual_substates,
                           up_virtual_substate_space>>
       ELSE IF value.kind = "Resource"
       THEN LET resource_address == NewId(TxHash, "resource", id_allocator.resource)
                address == Resource(resource_address)
            IN
            /\ id_allocator' = [id_allocator EXCEPT !.resource = @ + 1]
            /\ up_virtual_substate_space' =
                   IF resource_type(value) = "NonFungible"
                   THEN IndexSetInsert(up_virtual_substate_space,
                                       resource_to_non_fungible_space(resource_address))
                   ELSE up_virtual_substate_space
            /\ new_addresses' = Append(new_addresses, address)
            /\ up_substates' = IndexMapInsert(up_substates, AddressEncode(address), value)
            /\ Return("create_uuid_value", address, <<>>, "Ok", value)
            /\ UNCHANGED <<borrowed_substates, borrowed_substates_2, read_substates,
                           downed_substates, down_virtual_substates>>
       ELSE Panic("create_uuid_value", NoAddress, <<>>)

\* Track::create_uuid_value_2
create_uuid_value_2(address, value) ==
    /\ CanCall
    /\ UNCHANGED <<substate_store, resource, receipt, last_write, key_writes>>
    /\ new_addresses' = Append(new_addresses, address)
    /\ up_substates' = IndexMapInsert(up_substates, AddressEncode(address), value)
    /\ Return("create_uuid_value_2", address, <<>>, "Ok", NoValue)
    /\ UNCHANGED <<id_allocator, borrowed_substates, borrowed_substates_2, read_substates,
                   downed_substates, down_virtual_substates, up_virtual_substate_space>>

\* Track::create_key_space
create_key_space(component_address, kv_store_id) ==
    /\ CanCall
    /\ UNCHANGED <<substate_store, resource, receipt, last_write, key_writes>>
    /\ up_virtual_substate_space' =
           IndexSetInsert(up_virtual_substate_space,
                          <<EncComponentAddress(component_address), EncHashU32(kv_store_id)>>)
    /\ Return("create_key_space", KeyValueStore(component_address, kv_store_id), <<>>,
              "Ok", NoValue)
    /\ UNCHANGED <<id_allocator, new_addresses, borrowed_substates, borrowed_substates_2,
                   read_substates, downed_substates, down_virtual_substates, up_substates>>

\* ------------------------------------------------------------ the read path

\* Track::borrow_global_value
borrow_global_value(address) ==
    LET k == AddressEncode(address) IN
    /\ CanCall
    /\ UNCHANGED <<substate_store, resource, receipt, last_write, key_writes>>
    /\ IF IndexMapContains(up_substates, k)
       THEN /\ Return("borrow_global_value", address, <<>>, "Ok", IndexMapGet(up_substates, k))
            /\ UNCHANGED track
       ELSE IF HasSubstate(k)
       THEN LET substate == get_substate(k)
                kind == CASE address[1] = "Package" -> "Package"
                          [] address[1] \in {"GlobalComponent", "LocalComponent"} -> "Component"
                          [] address[1] = "Resource" -> "Resource"
                          [] address[1] = "Vault" -> "Vault"
                          [] OTHER -> "-"
            IN IF kind # "-" /\ DecodesAs(kind, substate.value)
               THEN /\ read_substates' = HashMapInsert(read_substates, address,
                                                       scrypto_decode(kind, substate.value))
                    /\ Return("borrow_global_value", address, <<>>, "Ok",
                              scrypto_decode(kind, substate.value))
                    /\ UNCHANGED <<id_allocator, new_addresses, borrowed_substates,
                                   borrowed_substates_2, downed_substates,
                                   down_virtual_substates, up_substates,
                                   up_virtual_substate_space>>
               ELSE /\ Return("borrow_global_value", address, <<>>, "panic", NoValue)
                    /\ UNCHANGED track
       ELSE /\ Return("borrow_global_value", address, <<>>, "NotFound", NoValue)
            /\ UNCHANGED track


\* ------------------------------------------------------------ keyed values

\* enum SubstateParentId and struct VirtualSubstateId
NoPhysicalId == PhysicalSubstateId(0, 0)
Exists(phys_id) == [tag |-> "Exists", phys_id |-> phys_id, index |-> 0]
New(index) == [tag |-> "New", phys_id |-> NoPhysicalId, index |-> index]
VirtualSubstateId(parent_id, key) == [parent |-> parent_id, key |-> key]
NoVirtualId == VirtualSubstateId(New(0), <<>>)

\* ReadableSubstateStore::get_space
HasSpace(space_address) == space_address \in DOMAIN substate_store.spaces

\* Track::get_substate_parent_id with a bug: the index of a new space counts from 1.
get_substate_parent_id_from_one(space_address) ==
    IF IndexSetIndexOf(up_virtual_substate_space, space_address) # 0
    THEN New(IndexSetIndexOf(up_virtual_substate_space, space_address))
    ELSE Exists(substate_store.spaces[space_address])

\* Track::get_substate_parent_id; IndexSet::get_index_of counts from 0.
\* The unwrap of a space the store does not hold panics (see set_key_value).
get_substate_parent_id(space_address) ==
    IF IndexSetIndexOf(up_virtual_substate_space, space_address) # 0
    THEN New(IndexSetIndexOf(up_virtual_substate_space, space_address) - 1)
    ELSE Exists(substate_store.spaces[space_address])

\* Track::read_key_value with a bug: up_substates is not looked at.
read_key_value_skips_up(parent_address, key) ==
    LET address == AddressEncode(parent_address) \o key IN
    /\ CanCall
    /\ UNCHANGED <<substate_store, resource, receipt, last_write, key_writes, track>>
    /\ LET kind == CASE parent_address[1] = "NonFungibleSet" -> "NonFungible"
                      [] parent_address[1] = "KeyValueStore" -> "KeyValueStoreEntry"
                      [] OTHER -> "-"
       IN IF kind = "-"
          THEN Return("read_key_value", parent_address, key, "panic", NoValue)
          ELSE IF ~HasSubstate(address)
          THEN Return("read_key_value", parent_address, key, "Ok", SubstateValue(kind, 0))
          ELSE IF DecodesAs(kind, get_substate(address).value)
          THEN Return("read_key_value", parent_address, key, "Ok",
                      scrypto_decode(kind, get_substate(address).value))
          ELSE Return("read_key_value", parent_address, key, "panic", NoValue)

\* Track::read_key_value
read_key_value(parent_address, key) ==
    LET address == AddressEncode(parent_address) \o key IN
    /\ CanCall
    /\ UNCHANGED <<substate_store, resource, receipt, last_write, key_writes, track>>
    /\ IF IndexMapContains(up_substates, address)
       THEN LET cur == IndexMapGet(up_substates, address) IN
            IF cur.kind \in {"KeyValueStoreEntry", "NonFungible"}
            THEN Return("read_key_value", parent_address, key, "Ok", cur)
            ELSE Return("read_key_value", parent_address, key, "panic", NoValue)
       ELSE LET kind == CASE parent_address[1] = "NonFungibleSet" -> "NonFungible"
                          [] parent_address[1] = "KeyValueStore" -> "KeyValueStoreEntry"
                          [] OTHER -> "-"
            IN IF kind = "-"
               THEN Return("read_key_value", parent_address, key, "panic", NoValue)
               ELSE IF ~HasSubstate(address)
               THEN Return("read_key_value", parent_address, key, "Ok", SubstateValue(kind, 0))
               ELSE IF DecodesAs(kind, get_substate(address).value)
               THEN Return("read_key_value", parent_address, key, "Ok",
                           scrypto_decode(kind, get_substate(address).value))
               ELSE Return("read_key_value", parent_address, key, "panic", NoValue)

\* The record of the set_key_value calls of the transaction: the value of the
\* latest call on (parent, key) and the number of calls so far.
KeyWritten(parent_address, key, value) ==
    HashMapInsert(key_writes, <<parent_address, key>>,
                  [val |-> value,
                   calls |-> IF <<parent_address, key>> \in DOMAIN key_writes
                             THEN key_writes[<<parent_address, key>>].calls + 1
                             ELSE 1])

\* Track::set_key_value with a bug: the key of a new entry is not virtually downed.
set_key_value_no_virtual_down(parent_address, key, value) ==
    LET address == AddressEncode(parent_address) \o key
        space_address == AddressEncode(parent_address)
    IN
    /\ CanCall
    /\ UNCHANGED <<substate_store, resource, receipt, last_write>>
    /\ IF IndexMapContains(up_substates, address)
       THEN /\ up_substates' = IndexMapInsert(IndexMapRemove(up_substates, address),
                                              address, value)
            /\ Return("set_key_value", parent_address, key, "Ok", value)
            /\ UNCHANGED <<id_allocator, new_addresses, borrowed_substates,
                           borrowed_substates_2, read_substates, downed_substates,
                           down_virtual_substates, up_virtual_substate_space>>
       ELSE IF HasSubstate(address)
       THEN /\ downed_substates' = Append(downed_substates, get_substate(address).phys_id)
            /\ up_substates' = IndexMapInsert(up_substates, address, value)
            /\ Return("set_key_value", parent_address, key, "Ok", value)
            /\ UNCHANGED <<id_allocator, new_addresses, borrowed_substates,
                           borrowed_substates_2, read_substates, down_virtual_substates,
                           up_virtual_substate_space>>
       ELSE IF IndexSetIndexOf(up_virtual_substate_space, space_address) = 0
               /\ ~HasSpace(space_address)
       THEN Panic("set_key_value", parent_address, key)
       ELSE /\ down_virtual_substates' = down_virtual_substates
            /\ up_substates' = IndexMapInsert(up_substates, address, value)
            /\ Return("set_key_value", parent_address, key, "Ok", value)
            /\ UNCHANGED <<id_allocator, new_addresses, borrowed_substates,
                           borrowed_substates_2, read_substates, downed_substates,
                           up_virtual_substate_space>>
    /\ key_writes' = IF last'.res = "Ok"
                     THEN KeyWritten(parent_address, key, value)
                     ELSE key_writes

\* Track::set_key_value with a bug: a key that is already in up_substates is
\* downed again.
set_key_value_downs_again(parent_address, key, value) ==
    LET address == AddressEncode(parent_address) \o key
        space_address == AddressEncode(parent_address)
    IN
    /\ CanCall
    /\ UNCHANGED <<substate_store, resource, receipt, last_write>>
    /\ IF HasSubstate(address)
       THEN /\ downed_substates' = Append(downed_substates, get_substate(address).phys_id)
            /\ up_substates' = IndexMapInsert(IndexMapRemove(up_substates, address),
                                              address, value)
            /\ Return("set_key_value", parent_address, key, "Ok", value)
            /\ UNCHANGED <<id_allocator, new_addresses, borrowed_substates,
                           borrowed_substates_2, read_substates, down_virtual_substates,
                           up_virtual_substate_space>>
       ELSE IF IndexSetIndexOf(up_virtual_substate_space, space_address) = 0
               /\ ~HasSpace(space_address)
       THEN Panic("set_key_value", parent_address, key)
       ELSE /\ down_virtual_substates' =
                   Append(down_virtual_substates,
                          VirtualSubstateId(get_substate_parent_id(space_address), key))
            /\ up_substates' = IndexMapInsert(IndexMapRemove(up_substates, address),
                                              address, value)
            /\ Return("set_key_value", parent_address, key, "Ok", value)
            /\ UNCHANGED <<id_allocator, new_addresses, borrowed_substates,
                           borrowed_substates_2, read_substates, downed_substates,
                           up_virtual_substate_space>>
    /\ key_writes' = IF last'.res = "Ok"
                     THEN KeyWritten(parent_address, key, value)
                     ELSE key_writes

\* Track::set_key_value
set_key_value(parent_address, key, value) ==
    LET address == AddressEncode(parent_address) \o key
        space_address == AddressEncode(parent_address)
    IN
    /\ CanCall
    /\ UNCHANGED <<substate_store, resource, receipt, last_write>>
    /\ IF IndexMapContains(up_substates, address)
       THEN /\ up_substates' = IndexMapInsert(IndexMapRemove(up_substates, address),
                                              address, value)
            /\ Return("set_key_value", parent_address, key, "Ok", value)
            /\ UNCHANGED <<id_allocator, new_addresses, borrowed_substates,
                           borrowed_substates_2, read_substates, downed_substates,
                           down_virtual_substates, up_virtual_substate_space>>
       ELSE IF HasSubstate(address)
       THEN /\ downed_substates' = Append(downed_substates, get_substate(address).phys_id)
            /\ up_substates' = IndexMapInsert(up_substates, address, value)
            /\ Return("set_key_value", parent_address, key, "Ok", value)
            /\ UNCHANGED <<id_allocator, new_addresses, borrowed_substates,
                           borrowed_substates_2, read_substates, down_virtual_substates,
                           up_virtual_substate_space>>
       ELSE IF IndexSetIndexOf(up_virtual_substate_space, space_address) = 0
               /\ ~HasSpace(space_address)
       THEN Panic("set_key_value", parent_address, key)
       ELSE /\ down_virtual_substates' =
                   Append(down_virtual_substates,
                          VirtualSubstateId(get_substate_parent_id(space_address), key))
            /\ up_substates' = IndexMapInsert(up_substates, address, value)
            /\ Return("set_key_value", parent_address, key, "Ok", value)
            /\ UNCHANGED <<id_allocator, new_addresses, borrowed_substates,
                           borrowed_substates_2, read_substates, downed_substates,
                           up_virtual_substate_space>>
    /\ key_writes' = IF last'.res = "Ok"
                     THEN KeyWritten(parent_address, key, value)
                     ELSE key_writes

\* ------------------------------------------- insert_objects_into_component

\* The fields of the track that insert_objects_into_component works on, as a
\* value: its calls run one after the other on it.
TrackNow ==
    [new_addresses |-> new_addresses,
     downed_substates |-> downed_substates,
     down_virtual_substates |-> down_virtual_substates,
     up_substates |-> up_substates,
     up_virtual_substate_space |-> up_virtual_substate_space,
     panicked |-> FALSE]

\* self.create_uuid_value_2(addr, value) on t
CreateUuidValue2On(t, address, value) ==
    [t EXCEPT !.new_addresses = Append(@, address),
              !.up_substates = IndexMapInsert(@, AddressEncode(address), value)]

\* self.create_key_space(component_address, id) on t
CreateKeySpaceOn(t, component_address, kv_store_id) ==
    [t EXCEPT !.up_virtual_substate_space =
                  IndexSetInsert(@, <<EncComponentAddress(component_address),
                                      EncHashU32(kv_store_id)>>)]

\* self.set_key_value(parent_address, k, Some(v)) on t
SetKeyValueOn(t, parent_address, key, value) ==
    LET address == AddressEncode(parent_address) \o key
        space_address == AddressEncode(parent_address)
        index == IndexSetIndexOf(t.up_virtual_substate_space, space_address)
    IN
    IF t.panicked THEN t
    ELSE IF IndexMapContains(t.up_substates, address)
    THEN [t EXCEPT !.up_substates = IndexMapInsert(IndexMapRemove(@, address), address, value)]
    ELSE IF HasSubstate(address)
    THEN [t EXCEPT !.downed_substates = Append(@, get_substate(address).phys_id),
                   !.up_substates = IndexMapInsert(@, address, value)]
    ELSE IF index = 0 /\ ~HasSpace(space_address)
    THEN [t EXCEPT !.panicked = TRUE]
    ELSE [t EXCEPT !.down_virtual_substates =
                       Append(@, VirtualSubstateId(
                                     IF index # 0 THEN New(index - 1)
                                     ELSE Exists(substate_store.spaces[space_address]),
                                     key)),
                   !.up_substates = IndexMapInsert(@, address, value)]

\* enum StoredValue, with the StoredValueId it is stored under. The maps
\* (values, child_values, store.store) are HashMaps: sets here.
StoredVault(id, vault) ==
    [id |-> id, variant |-> "Vault", value |-> vault, store |-> {}, child_values |-> {}]
StoredComponent(id, component, child_values) ==
    [id |-> id, variant |-> "Component", value |-> component, store |-> {},
     child_values |-> child_values]
StoredKeyValueStore(id, store, child_values) ==
    [id |-> id, variant |-> "KeyValueStore", value |-> NoValue, store |-> store,
     child_values |-> child_values]

RECURSIVE SetEntriesOutcomes(_, _, _)
\* for (k, v) in store.store { self.set_key_value(parent_address, k, Some(v)) }:
\* the tracks the loop can end in, one per order the HashMap can iterate in.
SetEntriesOutcomes(t, parent_address, entries) ==
    IF entries = {} THEN {t}
    ELSE UNION { SetEntriesOutcomes(
                     SetKeyValueOn(t, parent_address, e[1],
                                   SubstateValue("KeyValueStoreEntry", e[2])),
                     parent_address, entries \ {e}) : e \in entries }

RECURSIVE InsertObjectsOutcomes(_, _, _)
RECURSIVE InsertObjectOutcomes(_, _, _)
\* The body of the loop of insert_objects_into_component for one (id, value).
InsertObjectOutcomes(t, sv, component_address) ==
    CASE sv.variant = "Vault" ->
             {CreateUuidValue2On(t, Vault(component_address, sv.id), sv.value)}
      [] sv.variant = "Component" ->
             InsertObjectsOutcomes(
                 CreateUuidValue2On(t, LocalComponent(component_address, sv.id), sv.value),
                 sv.child_values, component_address)
      [] sv.variant = "KeyValueStore" ->
             UNION { InsertObjectsOutcomes(r, sv.child_values, component_address) :
                     r \in SetEntriesOutcomes(
                               CreateKeySpaceOn(t, component_address, sv.id),
                               KeyValueStore(component_address, sv.id), sv.store) }

\* for (id, value) in values { ... }: the tracks the loop can end in, one per
\* order the HashMap can iterate in.
InsertObjectsOutcomes(t, values, component_address) ==
    IF values = {} THEN {t}
    ELSE UNION { UNION { InsertObjectsOutcomes(r, values \ {sv}, component_address) :
                         r \in InsertObjectOutcomes(t, sv, component_address) } :
                 sv \in values }

\* Track::insert_objects_into_component
insert_objects_into_component(values, component_address) ==
    /\ CanCall
    /\ UNCHANGED <<substate_store, resource, receipt, last_write, key_writes>>
    /\ \E r \in InsertObjectsOutcomes(TrackNow, values, component_address) :
           IF r.panicked
           THEN Panic("insert_objects_into_component", GlobalComponent(component_address), <<>>)
           ELSE /\ new_addresses' = r.new_addresses
                /\ downed_substates' = r.downed_substates
                /\ down_virtual_substates' = r.down_virtual_substates
                /\ up_substates' = r.up_substates
                /\ up_virtual_substate_space' = r.up_virtual_substate_space
                /\ Return("insert_objects_into_component",
                          GlobalComponent(component_address), <<>>, "Ok", NoValue)
                /\ UNCHANGED <<id_allocator, borrowed_substates, borrowed_substates_2,
                               read_substates>>

\* ------------------------------------------------------------ commit

\* enum SubstateOperation
Down(phys_id) ==
    [op |-> "Down", phys_id |-> phys_id, virtual_id |-> NoVirtualId,
     address |-> <<>>, value |-> <<"", 0>>]
VirtualDown(virtual_id) ==
    [op |-> "VirtualDown", phys_id |-> NoPhysicalId, virtual_id |-> virtual_id,
     address |-> <<>>, value |-> <<"", 0>>]
Up(address, value) ==
    [op |-> "Up", phys_id |-> NoPhysicalId, virtual_id |-> NoVirtualId,
     address |-> address, value |-> value]
VirtualUp(space_address) ==
    [op |-> "VirtualUp", phys_id |-> NoPhysicalId, virtual_id |-> NoVirtualId,
     address |-> space_address, value |-> <<"", 0>>]

\* The store instructions with a bug: the Ups are emitted before the VirtualDowns.
store_instructions_ups_first ==
    [i \in 1..Len(downed_substates) |-> Down(downed_substates[i])]
    \o [i \in 1..Len(up_substates) |-> Up(up_substates[i].k, ValueEncode(up_substates[i].v))]
    \o [i \in 1..Len(down_virtual_substates) |-> VirtualDown(down_virtual_substates[i])]
    \o [i \in 1..Len(up_virtual_substate_space) |-> VirtualUp(up_virtual_substate_space[i])]

\* The store instructions of to_receipt: the four loops, in the code's order.
StoreInstructions(downed, down_virtual, up, up_virtual) ==
    [i \in 1..Len(downed) |-> Down(downed[i])]
    \o [i \in 1..Len(down_virtual) |-> VirtualDown(down_virtual[i])]
    \o [i \in 1..Len(up) |-> Up(up[i].k, ValueEncode(up[i].v))]
    \o [i \in 1..Len(up_virtual) |-> VirtualUp(up_virtual[i])]

store_instructions ==
    StoreInstructions(downed_substates, down_virtual_substates, up_substates,
                      up_virtual_substate_space)

\* Track::to_receipt with a bug: the Ups are written into the store.
to_receipt_writes_store ==
    /\ phase = "live"
    /\ receipt' = [borrowed |-> borrowed_substates,
                   new_addresses |-> new_addresses,
                   substate_operations |-> store_instructions]
    /\ up_substates' = <<>>
    /\ up_virtual_substate_space' = <<>>
    /\ phase' = "committed"
    /\ last' = Call("to_receipt", NoAddress, <<>>, "Ok", NoValue)
    /\ UNCHANGED <<resource, id_allocator, new_addresses, borrowed_substates,
                   borrowed_substates_2, read_substates, downed_substates,
                   down_virtual_substates, nops, last_write, key_writes>>
    /\ substate_store' =
           [substate_store EXCEPT !.substates =
               [k \in DOMAIN substate_store.substates
                       \cup {up_substates[i].k : i \in DOMAIN up_substates} |->
                   IF IndexMapContains(up_substates, k)
                   THEN [value |-> ValueEncode(IndexMapGet(up_substates, k)),
                         phys_id |-> PhysicalSubstateId(TxHash, IndexOf(up_substates, k))]
                   ELSE substate_store.substates[k]]]

\* Track::to_receipt: consumes the track; the two drains empty up_substates
\* and up_virtual_substate_space.
to_receipt ==
    /\ phase = "live"
    /\ receipt' = [borrowed |-> borrowed_substates,
                   new_addresses |-> new_addresses,
                   substate_operations |-> store_instructions]
    /\ up_substates' = <<>>
    /\ up_virtual_substate_space' = <<>>
    /\ phase' = "committed"
    /\ last' = Call("to_receipt", NoAddress, <<>>, "Ok", NoValue)
    /\ UNCHANGED <<substate_store, resource, id_allocator, new_addresses, borrowed_substates,
                   borrowed_substates_2, read_substates, downed_substates,
                   down_virtual_substates, nops, last_write, key_writes>>

\* ------------------------------------------------------------ the client

\* What the client passes: addresses, values, keyed entries.
AddressPool == {C1, V11}
ValuePool == {SubstateValue("Component", 2), SubstateValue("Vault", 1)}
UuidValuePool == {SubstateValue("Package", 1), SubstateValue("Resource", 1)}
\* The first resource the transaction creates, and its non-fungible space.
NewResource == NewId(TxHash, "resource", 0)
KeyedPool == {<<NFS1, Key1>>, <<NFS1, Key2>>, <<KVS11, Key1>>,
              <<NonFungibleSet(NewResource), Key1>>}
KeyedValuePool == {SubstateValue("NonFungible", 2), SubstateValue("KeyValueStoreEntry", 1)}
\* The addresses create_uuid_value and create_uuid_value_2 recorded so far.
CreatedAddresses == {new_addresses[i] : i \in DOMAIN new_addresses}

Next ==
    \/ \E a \in AddressPool : take_lock(a)
    \/ \E a \in AddressPool, v \in ValuePool : write_value(a, v)
    \/ \E a \in AddressPool : release_lock(a)
    \/ \E a \in AddressPool : borrow_global_mut_value(a)
    \/ \E a \in AddressPool, v \in ValuePool : return_borrowed_global_mut_value(a, v)
    \/ \E v \in UuidValuePool : create_uuid_value(v)
    \/ \E a \in AddressPool, v \in ValuePool : create_uuid_value_2(a, v)
    \/ create_key_space(1, 1)
    \/ \E a \in AddressPool \cup CreatedAddresses : borrow_global_value(a)
    \/ \E pk \in KeyedPool : read_key_value(pk[1], pk[2])
    \/ \E pk \in KeyedPool, v \in KeyedValuePool : set_key_value(pk[1], pk[2], v)
    \/ to_receipt

Spec == Init /\ [][Next]_vars


\* The creation side of the track on its own: ids, created values, the objects
\* of a component, commit.
ValueMapPool ==
    { {StoredVault(1, SubstateValue("Vault", 1))},
      {StoredVault(1, SubstateValue("Vault", 1)), StoredVault(2, SubstateValue("Vault", 2))},
      {StoredKeyValueStore(1, {<<Key1, 1>>, <<Key2, 2>>},
                           {StoredVault(2, SubstateValue("Vault", 2))})},
      {StoredComponent(2, SubstateValue("Component", 2),
                       {StoredVault(1, SubstateValue("Vault", 1))})} }

NextCreate ==
    \/ new_package_address
    \/ new_component_address
    \/ new_resource_address
    \/ new_vault_id
    \/ new_kv_store_id
    \/ \E v \in UuidValuePool : create_uuid_value(v)
    \/ \E values \in ValueMapPool : insert_objects_into_component(values, 1)
    \/ to_receipt

SpecCreate == Init /\ [][NextCreate]_vars


\* ------------------------------------------------ the resource manager's calls

\* The number of calls made on a resource manager.
MaxCalls == 4

\* The decimals of a Decimal, and the cap of one mint: 100_000_000_000 units.
DecimalScale == 18
MaxMintAmount == DecFromWhole(100, 0)

CanCallResource == phase = "live" /\ nops < MaxCalls

\* What the caller sees of a call of the resource manager: the argument, the
\* result.
ReturnResource(op, arg, res) ==
    /\ last' = [Call(op, NoAddress, <<>>, res, NoValue) EXCEPT !.key = arg]
    /\ nops' = nops + 1
    /\ UNCHANGED <<substate_store, track, phase, receipt, last_write, key_writes>>

\* ResourceManager::check_amount without the sign test.
check_amount_any_sign(amount) ==
    IF ~DecDivisibleByPow10(amount,
                            DecimalScale - resource_manager.resource_type.divisibility)
    THEN "InvalidAmount"
    ELSE "Ok"

\* ResourceManager::check_amount without the divisibility test.
check_amount_sign_only(amount) ==
    IF DecIsNegative(amount) THEN "InvalidAmount" ELSE "Ok"

\* ResourceManager::check_amount
check_amount(amount) ==
    IF \/ DecIsNegative(amount)
       \/ ~DecDivisibleByPow10(amount,
                               DecimalScale - resource_manager.resource_type.divisibility)
    THEN "InvalidAmount"
    ELSE "Ok"

\* ResourceManager::mint_fungible with a bug: the cap is forgotten.
mint_fungible_uncapped(amount) ==
    /\ CanCallResource
    /\ UNCHANGED non_fungibles
    /\ IF resource_manager.resource_type.type = "Fungible"
       THEN IF check_amount(amount) # "Ok"
            THEN /\ ReturnResource("mint_fungible", amount, check_amount(amount))
                 /\ UNCHANGED resource_manager
            ELSE /\ resource_manager' =
                        [resource_manager EXCEPT !.total_supply = DecAdd(@, amount)]
                 /\ ReturnResource("mint_fungible", amount, "Ok")
       ELSE /\ ReturnResource("mint_fungible", amount, "ResourceTypeDoesNotMatch")
            /\ UNCHANGED resource_manager

\* ResourceManager::mint_fungible with a bug: the amount is added twice.
mint_fungible_twice(amount) ==
    /\ CanCallResource
    /\ UNCHANGED non_fungibles
    /\ IF resource_manager.resource_type.type = "Fungible"
       THEN IF check_amount(amount) # "Ok"
            THEN /\ ReturnResource("mint_fungible", amount, check_amount(amount))
                 /\ UNCHANGED resource_manager
            ELSE IF DecGreater(amount, MaxMintAmount)
            THEN /\ ReturnResource("mint_fungible", amount, "MaxMintAmountExceeded")
                 /\ UNCHANGED resource_manager
            ELSE /\ resource_manager' =
                        [resource_manager EXCEPT
                            !.total_supply = DecAdd(DecAdd(@, amount), amount)]
                 /\ ReturnResource("mint_fungible", amount, "Ok")
       ELSE /\ ReturnResource("mint_fungible", amount, "ResourceTypeDoesNotMatch")
            /\ UNCHANGED resource_manager

\* ResourceManager::mint_fungible
mint_fungible(amount) ==
    /\ CanCallResource
    /\ UNCHANGED non_fungibles
    /\ IF resource_manager.resource_type.type = "Fungible"
       THEN IF check_amount(amount) # "Ok"
            THEN /\ ReturnResource("mint_fungible", amount, check_amount(amount))
                 /\ UNCHANGED resource_manager
            ELSE IF DecGreater(amount, MaxMintAmount)
            THEN /\ ReturnResource("mint_fungible", amount, "MaxMintAmountExceeded")
                 /\ UNCHANGED resource_manager
            ELSE /\ resource_manager' =
                        [resource_manager EXCEPT !.total_supply = DecAdd(@, amount)]
                 /\ ReturnResource("mint_fungible", amount, "Ok")
       ELSE /\ ReturnResource("mint_fungible", amount, "ResourceTypeDoesNotMatch")
            /\ UNCHANGED resource_manager

\* ResourceManager::burn
burn(amount) ==
    /\ CanCallResource
    /\ UNCHANGED non_fungibles
    /\ resource_manager' = [resource_manager EXCEPT !.total_supply = DecSub(@, amount)]
    /\ ReturnResource("burn", amount, "Ok")


\* Non-fungible data: bytes are a sequence of encoded fields <<type, content>>.
\* ScryptoValue::from_slice fails on bytes that do not decode, and otherwise
\* gives the bytes with the ids of the buckets, proofs, key-value stores and
\* vaults found in them.
DecodeFails(data) == \E i \in DOMAIN data : data[i][1] = "Invalid"
IdsOf(data, type) == {data[i][2] : i \in {j \in DOMAIN data : data[j][1] = type}}
ScryptoValueFromSlice(data) ==
    [raw |-> data,
     bucket_ids |-> IdsOf(data, "Bucket"),
     proof_ids |-> IdsOf(data, "Proof"),
     kv_store_ids |-> IdsOf(data, "KeyValueStore"),
     vault_ids |-> IdsOf(data, "Vault")]

\* ResourceManager::process_non_fungible_data with a bug: vault ids pass.
process_non_fungible_data_vaults_pass(data) ==
    IF DecodeFails(data) THEN "InvalidNonFungibleData"
    ELSE IF ScryptoValueFromSlice(data).bucket_ids # {} THEN "InvalidNonFungibleData"
    ELSE IF ScryptoValueFromSlice(data).proof_ids # {} THEN "InvalidNonFungibleData"
    ELSE IF ScryptoValueFromSlice(data).kv_store_ids # {} THEN "InvalidNonFungibleData"
    ELSE "Ok"

\* ResourceManager::process_non_fungible_data: Ok(validated) or the error
process_non_fungible_data(data) ==
    IF DecodeFails(data) THEN "InvalidNonFungibleData"
    ELSE IF ScryptoValueFromSlice(data).bucket_ids # {} THEN "InvalidNonFungibleData"
    ELSE IF ScryptoValueFromSlice(data).proof_ids # {} THEN "InvalidNonFungibleData"
    ELSE IF ScryptoValueFromSlice(data).kv_store_ids # {} THEN "InvalidNonFungibleData"
    ELSE IF ScryptoValueFromSlice(data).vault_ids # {} THEN "InvalidNonFungibleData"
    ELSE "Ok"

\* NonFungible::new(immutable_data, mutable_data)
NonFungibleNew(immutable_data, mutable_data) ==
    [immutable_data |-> immutable_data, mutable_data |-> mutable_data]

\* An entry of the HashMap<NonFungibleId, (Vec<u8>, Vec<u8>)> of a mint.
Entry(id, immutable_data, mutable_data) == [id |-> id, data |-> <<immutable_data, mutable_data>>]

\* SystemApi::get_non_fungible(..).is_some(), SystemApi::set_non_fungible
NonFungibleExists(held, id) == id \in DOMAIN held
SetNonFungible(held, id, non_fungible) == HashMapInsert(held, id, non_fungible)

RECURSIVE AllocateOutcomes(_, _)
\* mint_non_fungibles, "Allocate non-fungibles": for (id, data) in entries,
\* left at the first error. The outcomes are the non-fungibles held and the
\* result, one per order the HashMap can iterate in.
AllocateOutcomes(held, entries) ==
    IF entries = {} THEN {[non_fungibles |-> held, res |-> "Ok"]}
    ELSE UNION {
        IF NonFungibleExists(held, e.id)
        THEN {[non_fungibles |-> held, res |-> "NonFungibleAlreadyExists"]}
        ELSE IF process_non_fungible_data(e.data[1]) # "Ok"
        THEN {[non_fungibles |-> held, res |-> process_non_fungible_data(e.data[1])]}
        ELSE IF process_non_fungible_data(e.data[2]) # "Ok"
        THEN {[non_fungibles |-> held, res |-> process_non_fungible_data(e.data[2])]}
        ELSE AllocateOutcomes(
                 SetNonFungible(held, e.id,
                                NonFungibleNew(ScryptoValueFromSlice(e.data[1]).raw,
                                               ScryptoValueFromSlice(e.data[2]).raw)),
                 entries \ {e})
        : e \in entries }

\* ResourceManager::mint_non_fungibles
mint_non_fungibles(entries) ==
    LET amount == DecFromWhole(0, Cardinality(entries)) IN
    /\ CanCallResource
    /\ IF resource_manager.resource_type.type # "NonFungible"
       THEN /\ ReturnResource("mint_non_fungibles", entries, "ResourceTypeDoesNotMatch")
            /\ UNCHANGED <<resource_manager, non_fungibles>>
       ELSE IF check_amount(amount) # "Ok"
       THEN /\ ReturnResource("mint_non_fungibles", entries, check_amount(amount))
            /\ UNCHANGED <<resource_manager, non_fungibles>>
       ELSE IF DecGreater(amount, MaxMintAmount)
       THEN /\ ReturnResource("mint_non_fungibles", entries, "MaxMintAmountExceeded")
            /\ UNCHANGED <<resource_manager, non_fungibles>>
       ELSE /\ resource_manager' =
                   [resource_manager EXCEPT !.total_supply = DecAdd(@, amount)]
            /\ \E r \in AllocateOutcomes(non_fungibles, entries) :
                   /\ non_fungibles' = r.non_fungibles
                   /\ ReturnResource("mint_non_fungibles", entries, r.res)


\* A resource manager under mint and burn calls. The resource types, amounts,
\* data and entry maps the caller passes:
ResourceTypePool == {Fungible(0), Fungible(2), Fungible(18), NonFungibleType}
OneUnit == DecFromWhole(0, 1)
OneCent == DecNormalize(<<0, 10000000, 0, 0>>)
OneAtto == DecFromRaw(1)
AmountPool ==
    {OneUnit, OneCent, OneAtto, DecSub(DecZero, OneUnit), MaxMintAmount,
     DecAdd(MaxMintAmount, OneUnit)}
BurnPool == {OneUnit, OneCent, OneAtto}
PlainData == <<<<"U32", 7>>>>
UndecodableData == <<<<"Invalid", 0>>>>
EntriesPool ==
    { {Entry("a", PlainData, PlainData)},
      {Entry("a", PlainData, PlainData), Entry("b", PlainData, PlainData)},
      {Entry("b", PlainData, UndecodableData)},
      {Entry("a", <<<<"Bucket", 1>>>>, PlainData)},
      {Entry("b", PlainData, <<<<"Proof", 1>>>>)},
      {Entry("a", PlainData, PlainData), Entry("c", <<<<"KeyValueStore", 1>>>>, PlainData)},
      {Entry("c", PlainData, <<<<"U32", 7>>, <<"Vault", 1>>>>)} }

InitSupply ==
    /\ TrackNew
    /\ \E type \in ResourceTypePool :
           resource_manager = ResourceManagerNew(type, EmptyMap, EmptyMap)
    /\ non_fungibles = EmptyMap
    /\ native_calls = <<>>
    /\ rtn = <<>>

NextSupply ==
    \/ \E amount \in AmountPool : mint_fungible(amount) /\ UNCHANGED <<native_calls, rtn>>
    \/ \E entries \in EntriesPool :
           mint_non_fungibles(entries) /\ UNCHANGED <<native_calls, rtn>>
    \/ \E amount \in BurnPool : burn(amount) /\ UNCHANGED <<native_calls, rtn>>

SpecSupply == InitSupply /\ [][NextSupply]_vars


\* ------------------------------------------------ the resource manager's auth

\* The arguments of update_auth and lock_auth, as scrypto_decode gives them.
ResourceManagerUpdateAuthInput(method, access_rule) ==
    [method |-> method, access_rule |-> access_rule]
ResourceManagerLockAuthInput(method) == [method |-> method]

\* ResourceManager::get_auth with a bug: update_auth and lock_auth are guarded
\* by the rule's auth, not by its update_auth.
get_auth_by_method_auth(method_name, arg) ==
    IF method_name \in {"update_auth", "lock_auth"}
    THEN IF arg.method \notin DOMAIN resource_manager.authorization
         THEN Unsupported
         ELSE get_method_auth(resource_manager.authorization[arg.method])
    ELSE IF method_name \notin DOMAIN resource_manager.method_table
    THEN Unsupported
    ELSE IF resource_manager.method_table[method_name] = Public
    THEN AllowAll
    ELSE get_method_auth(
             resource_manager.authorization[resource_manager.method_table[method_name][2]])

\* ResourceManager::get_vault_auth
get_vault_auth(method_name) ==
    IF method_name \notin DOMAIN resource_manager.vault_method_table
    THEN Unsupported
    ELSE IF resource_manager.vault_method_table[method_name] = Public
    THEN AllowAll
    ELSE get_method_auth(
             resource_manager.authorization[resource_manager.vault_method_table[method_name][2]])

\* ResourceManager::get_consuming_bucket_auth
get_consuming_bucket_auth(method_name) ==
    IF method_name \notin DOMAIN resource_manager.method_table
    THEN Unsupported
    ELSE IF resource_manager.method_table[method_name] = Public
    THEN AllowAll
    ELSE get_method_auth(
             resource_manager.authorization[resource_manager.method_table[method_name][2]])

\* ResourceManager::get_auth with a bug: a protected method is guarded by the
\* rule's update_auth.
get_auth_update_for_all(method_name, arg) ==
    IF method_name \in {"update_auth", "lock_auth"}
    THEN IF arg.method \notin DOMAIN resource_manager.authorization
         THEN Unsupported
         ELSE get_update_auth(resource_manager.authorization[arg.method])
    ELSE IF method_name \notin DOMAIN resource_manager.method_table
    THEN Unsupported
    ELSE IF resource_manager.method_table[method_name] = Public
    THEN AllowAll
    ELSE get_update_auth(
             resource_manager.authorization[resource_manager.method_table[method_name][2]])

\* ResourceManager::get_auth
get_auth(method_name, arg) ==
    IF method_name \in {"update_auth", "lock_auth"}
    THEN IF arg.method \notin DOMAIN resource_manager.authorization
         THEN Unsupported
         ELSE get_update_auth(resource_manager.authorization[arg.method])
    ELSE IF method_name \notin DOMAIN resource_manager.method_table
    THEN Unsupported
    ELSE IF resource_manager.method_table[method_name] = Public
    THEN AllowAll
    ELSE get_method_auth(
             resource_manager.authorization[resource_manager.method_table[method_name][2]])

\* The guard of the system API in front of ResourceManager::main: the caller's
\* proofs must satisfy the method's authorization.
Authorized(method_auth, proofs) ==
    CASE method_auth = AllowAll -> TRUE
      [] method_auth[2] = "Protected" -> method_auth[3] \in proofs
      [] OTHER -> FALSE

\* ResourceManager::main, "update_auth", called through the guard
update_auth(input, proofs) ==
    /\ CanCallResource
    /\ UNCHANGED non_fungibles
    /\ IF Authorized(get_auth("update_auth", input), proofs)
       THEN /\ resource_manager' =
                   [resource_manager EXCEPT !.authorization[input.method] =
                        MethodAccessRuleUpdate(@, input.access_rule)]
            /\ ReturnResource("update_auth", input, "Ok")
       ELSE /\ UNCHANGED resource_manager
            /\ ReturnResource("update_auth", input, "NotAuthorized")

\* ResourceManager::main, "lock_auth", called through the guard
lock_auth(input, proofs) ==
    /\ CanCallResource
    /\ UNCHANGED non_fungibles
    /\ IF Authorized(get_auth("lock_auth", input), proofs)
       THEN /\ resource_manager' =
                   [resource_manager EXCEPT !.authorization[input.method] =
                        MethodAccessRuleLock(@)]
            /\ ReturnResource("lock_auth", input, "Ok")
       ELSE /\ UNCHANGED resource_manager
            /\ ReturnResource("lock_auth", input, "NotAuthorized")

\* A resource manager under update_auth and lock_auth calls. The rules it is
\* created with (Mint always mutable), and the rules and proofs callers pass:
AccessRulePool ==
    {AccessRuleOf("AllowAll", 0), AccessRuleOf("DenyAll", 0), AccessRuleOf("Protected", 1)}
AuthPool ==
    { ("Mint" :> <<AccessRuleOf("DenyAll", 0), MUTABLE(AccessRuleOf("AllowAll", 0))>>),
      ("Mint" :> <<AccessRuleOf("Protected", 1),
                   MUTABLE(AccessRuleOf("Protected", 1))>>)
      @@ ("Burn" :> <<AccessRuleOf("AllowAll", 0),
                      MUTABLE(AccessRuleOf("Protected", 2))>>),
      ("Mint" :> <<AccessRuleOf("AllowAll", 0), MUTABLE(AccessRuleOf("Protected", 1))>>)
      @@ ("Withdraw" :> <<AccessRuleOf("Protected", 2), LOCKED>>) }
AuthKeyPool == {"Mint", "Burn", "Withdraw"}
ProofsPool == {{}, {1}, {1, 2}}

InitAuth ==
    /\ TrackNew
    /\ \E auth \in AuthPool :
           resource_manager = ResourceManagerNew(Fungible(0), EmptyMap, auth)
    /\ non_fungibles = EmptyMap
    /\ native_calls = <<>>
    /\ rtn = <<>>

NextAuth ==
    \/ \E method \in AuthKeyPool, access_rule \in AccessRulePool, proofs \in ProofsPool :
           /\ update_auth(ResourceManagerUpdateAuthInput(method, access_rule), proofs)
           /\ UNCHANGED <<native_calls, rtn>>
    \/ \E method \in AuthKeyPool, proofs \in ProofsPool :
           /\ lock_auth(ResourceManagerLockAuthInput(method), proofs)
           /\ UNCHANGED <<native_calls, rtn>>

SpecAuth == InitAuth /\ [][NextAuth]_vars


\* ------------------------------------------------ main and static_main

\* ValueId::Resource(resource_address) of the manager.
ManagerId == <<"Resource", NewResource>>

\* The system API holds a value as borrowed from borrow_native_value to
\* return_native_value.
NativeBorrowed(value_id) ==
    LET Count(op) == Cardinality({i \in DOMAIN native_calls : native_calls[i] = <<op, value_id>>})
    IN Count("borrow_native_value") > Count("return_native_value")

\* ResourceManager::mint
mint(mint_params) ==
    IF mint_params.type = "Fungible"
    THEN mint_fungible(mint_params.amount)
    ELSE mint_non_fungibles(mint_params.entries)

\* ResourceManager::main, "update_non_fungible_data", with a bug: the data
\* replaces the immutable half of the non-fungible.
update_non_fungible_data_immutable(input) ==
    IF process_non_fungible_data(input.data) # "Ok"
    THEN /\ ReturnResource("update_non_fungible_data", input,
                           process_non_fungible_data(input.data))
         /\ UNCHANGED <<resource_manager, non_fungibles>>
    ELSE IF ~NonFungibleExists(non_fungibles, input.id)
    THEN /\ ReturnResource("update_non_fungible_data", input, "NonFungibleNotFound")
         /\ UNCHANGED <<resource_manager, non_fungibles>>
    ELSE /\ non_fungibles' =
                SetNonFungible(non_fungibles, input.id,
                               [non_fungibles[input.id] EXCEPT
                                    !.immutable_data = ScryptoValueFromSlice(input.data).raw])
         /\ ReturnResource("update_non_fungible_data", input, "Ok")
         /\ UNCHANGED resource_manager

\* ResourceManager::main, "update_non_fungible_data", the decoded input given
update_non_fungible_data(input) ==
    IF process_non_fungible_data(input.data) # "Ok"
    THEN /\ ReturnResource("update_non_fungible_data", input,
                           process_non_fungible_data(input.data))
         /\ UNCHANGED <<resource_manager, non_fungibles>>
    ELSE IF ~NonFungibleExists(non_fungibles, input.id)
    THEN /\ ReturnResource("update_non_fungible_data", input, "NonFungibleNotFound")
         /\ UNCHANGED <<resource_manager, non_fungibles>>
    ELSE /\ non_fungibles' =
                SetNonFungible(non_fungibles, input.id,
                               [non_fungibles[input.id] EXCEPT
                                    !.mutable_data = ScryptoValueFromSlice(input.data).raw])
         /\ ReturnResource("update_non_fungible_data", input, "Ok")
         /\ UNCHANGED resource_manager

\* ResourceManager::main. arg is the ScryptoValue passed: whether its bytes
\* decode as the input of the method, and the input they decode to. An error
\* leaves main through `?`, before return_native_value.
main(method_name, arg) ==
    LET Fail(res) == /\ ReturnResource(method_name, arg, res)
                     /\ UNCHANGED <<resource_manager, non_fungibles>>
        Query == /\ ReturnResource(method_name, arg, "Ok")
                 /\ UNCHANGED <<resource_manager, non_fungibles>>
        Creates == IF method_name = "create_vault" THEN <<<<"native_create", "Vault">>>>
                   ELSE IF method_name \in {"create_bucket", "mint"}
                   THEN <<<<"native_create", "Bucket">>>>
                   ELSE <<>>
        Rtn == CASE method_name \in {"update_auth", "lock_auth", "update_metadata",
                                     "update_non_fungible_data"} -> <<"Unit">>
                 [] method_name = "create_vault" -> <<"Vault", Len(native_calls) + 2>>
                 [] method_name \in {"create_bucket", "mint"} ->
                        <<"Bucket", Len(native_calls) + 2>>
                 [] method_name = "metadata" -> <<"Metadata", resource_manager.metadata>>
                 [] method_name = "resource_type" ->
                        <<"ResourceType", resource_manager.resource_type>>
                 [] method_name = "total_supply" ->
                        <<"Decimal", resource_manager.total_supply>>
                 [] method_name = "non_fungible_exists" ->
                        <<"Bool", NonFungibleExists(non_fungibles, arg.input.id)>>
                 [] method_name = "non_fungible_data" ->
                        <<"Data", non_fungibles[arg.input.id].immutable_data,
                          non_fungibles[arg.input.id].mutable_data>>
    IN
    /\ CanCallResource
    /\ \E i \in DOMAIN native_calls : native_calls[i] = <<"native_create", "Resource">>
    /\ ~NativeBorrowed(ManagerId)
    /\ IF method_name \notin {"update_auth", "lock_auth", "create_vault", "create_bucket",
                              "mint", "metadata", "resource_type", "total_supply",
                              "update_metadata", "update_non_fungible_data",
                              "non_fungible_exists", "non_fungible_data"}
       THEN Fail("InvalidMethod")
       ELSE IF ~arg.decodes
       THEN Fail("InvalidRequestData")
       ELSE CASE method_name = "update_auth" ->
                     /\ resource_manager' =
                            [resource_manager EXCEPT !.authorization[arg.input.method] =
                                 MethodAccessRuleUpdate(@, arg.input.access_rule)]
                     /\ UNCHANGED non_fungibles
                     /\ ReturnResource(method_name, arg, "Ok")
              [] method_name = "lock_auth" ->
                     /\ resource_manager' =
                            [resource_manager EXCEPT !.authorization[arg.input.method] =
                                 MethodAccessRuleLock(@)]
                     /\ UNCHANGED non_fungibles
                     /\ ReturnResource(method_name, arg, "Ok")
              [] method_name = "mint" -> mint(arg.input.mint_params)
              [] method_name = "update_metadata" ->
                     /\ resource_manager' =
                            [resource_manager EXCEPT !.metadata = arg.input.metadata]
                     /\ UNCHANGED non_fungibles
                     /\ ReturnResource(method_name, arg, "Ok")
              [] method_name = "update_non_fungible_data" ->
                     update_non_fungible_data(arg.input)
              [] method_name = "non_fungible_data" ->
                     IF NonFungibleExists(non_fungibles, arg.input.id)
                     THEN Query
                     ELSE Fail("NonFungibleNotFound")
              [] OTHER -> Query
    /\ native_calls' =
           native_calls \o <<<<"borrow_native_value", ManagerId>>>>
               \o (IF last'.res = "Ok"
                   THEN Creates \o <<<<"return_native_value", ManagerId>>>>
                   ELSE <<>>)
    /\ rtn' = IF last'.res = "Ok" THEN Rtn ELSE <<>>

\* ResourceManager::static_main with a bug: the resource is globalized although
\* the mint failed.
static_main_globalizes_anyway(method_name, arg) ==
    LET created == <<"native_create", "Resource">>
        minted == <<created, <<"borrow_native_value", ManagerId>>,
                    <<"return_native_value", ManagerId>>, <<"native_create", "Bucket">>,
                    <<"native_globalize", ManagerId>>>>
    IN
    /\ CanCallResource
    /\ native_calls = <<>>
    /\ IF method_name # "create"
       THEN /\ ReturnResource("static_main", arg, "InvalidMethod")
            /\ UNCHANGED <<resource_manager, non_fungibles, native_calls>>
            /\ rtn' = <<>>
       ELSE IF ~arg.decodes
       THEN /\ ReturnResource("create", arg, "InvalidRequestData")
            /\ UNCHANGED <<resource_manager, non_fungibles, native_calls>>
            /\ rtn' = <<>>
       ELSE /\ resource_manager = ResourceManagerNew(arg.input.resource_type,
                                                     arg.input.metadata,
                                                     arg.input.access_rules)
            /\ IF arg.input.mint_params.type = "None"
               THEN /\ ReturnResource("create", arg, "Ok")
                    /\ UNCHANGED <<resource_manager, non_fungibles>>
                    /\ native_calls' = <<created, <<"native_globalize", ManagerId>>>>
                    /\ rtn' = <<"Tuple", NewResource, <<"None">>>>
               ELSE /\ mint(arg.input.mint_params)
                    /\ native_calls' =
                           IF last'.res = "Ok"
                           THEN minted
                           ELSE <<created, <<"borrow_native_value", ManagerId>>,
                                  <<"native_globalize", ManagerId>>>>
                    /\ rtn' = IF last'.res = "Ok"
                              THEN <<"Tuple", NewResource, <<"Some", <<"Bucket", 4>>>>>>
                              ELSE <<>>

\* ResourceManager::static_main. The manager ResourceManager::new builds from
\* the input is the one the state holds; native_create hands it to the system.
static_main(method_name, arg) ==
    LET created == <<"native_create", "Resource">>
        minted == <<created, <<"borrow_native_value", ManagerId>>,
                    <<"return_native_value", ManagerId>>, <<"native_create", "Bucket">>,
                    <<"native_globalize", ManagerId>>>>
    IN
    /\ CanCallResource
    /\ native_calls = <<>>
    /\ IF method_name # "create"
       THEN /\ ReturnResource("static_main", arg, "InvalidMethod")
            /\ UNCHANGED <<resource_manager, non_fungibles, native_calls>>
            /\ rtn' = <<>>
       ELSE IF ~arg.decodes
       THEN /\ ReturnResource("create", arg, "InvalidRequestData")
            /\ UNCHANGED <<resource_manager, non_fungibles, native_calls>>
            /\ rtn' = <<>>
       ELSE /\ resource_manager = ResourceManagerNew(arg.input.resource_type,
                                                     arg.input.metadata,
                                                     arg.input.access_rules)
            /\ IF arg.input.mint_params.type = "None"
               THEN /\ ReturnResource("create", arg, "Ok")
                    /\ UNCHANGED <<resource_manager, non_fungibles>>
                    /\ native_calls' = <<created, <<"native_globalize", ManagerId>>>>
                    /\ rtn' = <<"Tuple", NewResource, <<"None">>>>
               ELSE /\ mint(arg.input.mint_params)
                    /\ native_calls' =
                           IF last'.res = "Ok"
                           THEN minted
                           ELSE <<created, <<"borrow_native_value", ManagerId>>>>
                    /\ rtn' = IF last'.res = "Ok"
                              THEN <<"Tuple", NewResource, <<"Some", <<"Bucket", 4>>>>>>
                              ELSE <<>>

\* A transaction that creates a resource and then calls its manager. The
\* inputs of create, and the methods and arguments of main:
CreateInputPool ==
    LET Input(type, auth, mint_params) ==
            [decodes |-> TRUE,
             input |-> [resource_type |-> type, metadata |-> EmptyMap,
                        access_rules |-> auth, mint_params |-> mint_params]]
    IN
    { Input(Fungible(2), EmptyMap, [type |-> "None"]),
      Input(Fungible(2), EmptyMap, [type |-> "Fungible", amount |-> OneCent]),
      Input(Fungible(0), EmptyMap, [type |-> "Fungible", amount |-> OneCent]),
      Input(NonFungibleType, EmptyMap, [type |-> "None"]),
      Input(NonFungibleType, EmptyMap,
            [type |-> "NonFungible",
             entries |-> {Entry("a", PlainData, PlainData), Entry("b", PlainData, PlainData)}]),
      Input(NonFungibleType, EmptyMap,
            [type |-> "NonFungible", entries |-> {Entry("b", PlainData, UndecodableData)}]),
      Input(NonFungibleType, EmptyMap, [type |-> "Fungible", amount |-> OneUnit]),
      [decodes |-> FALSE, input |-> NoValue] }

MainCallPool ==
    LET Arg(input) == [decodes |-> TRUE, input |-> input]
        Undecodable == [decodes |-> FALSE, input |-> NoValue]
        NewData == <<<<"U32", 9>>>>
    IN
    { <<"update_auth", Arg(ResourceManagerUpdateAuthInput("Mint", AccessRuleOf("AllowAll", 0)))>>,
      <<"lock_auth", Arg(ResourceManagerLockAuthInput("Burn"))>>,
      <<"create_vault", Arg(NoValue)>>,
      <<"create_bucket", Arg(NoValue)>>,
      <<"mint", Arg([mint_params |-> [type |-> "Fungible", amount |-> OneUnit]])>>,
      <<"mint", Arg([mint_params |-> [type |-> "Fungible", amount |-> OneAtto]])>>,
      <<"mint", Arg([mint_params |->
                        [type |-> "NonFungible",
                         entries |-> {Entry("a", PlainData, PlainData)}]])>>,
      <<"mint", Undecodable>>,
      <<"metadata", Arg(NoValue)>>,
      <<"resource_type", Arg(NoValue)>>,
      <<"total_supply", Arg(NoValue)>>,
      <<"update_metadata", Arg([metadata |-> ("name" :> "gold")])>>,
      <<"update_non_fungible_data", Arg([id |-> "a", data |-> NewData])>>,
      <<"update_non_fungible_data", Arg([id |-> "b", data |-> NewData])>>,
      <<"update_non_fungible_data", Arg([id |-> "c", data |-> NewData])>>,
      <<"update_non_fungible_data", Arg([id |-> "a", data |-> UndecodableData])>>,
      <<"update_non_fungible_data", Arg([id |-> "a", data |-> <<<<"Vault", 1>>>>])>>,
      <<"update_non_fungible_data", Arg([id |-> "c", data |-> <<<<"Bucket", 1>>>>])>>,
      <<"update_non_fungible_data", Undecodable>>,
      <<"non_fungible_exists", Arg([id |-> "a"])>>,
      <<"non_fungible_data", Arg([id |-> "a"])>>,
      <<"non_fungible_data", Arg([id |-> "c"])>>,
      <<"transfer", Arg(NoValue)>> }

InitMain ==
    /\ TrackNew
    /\ \E type \in {Fungible(0), Fungible(2), NonFungibleType} :
           resource_manager = ResourceManagerNew(type, EmptyMap, EmptyMap)
    /\ non_fungibles = EmptyMap
    /\ native_calls = <<>>
    /\ rtn = <<>>

NextMain ==
    \/ \E arg \in CreateInputPool : static_main("create", arg)
    \/ \E arg \in CreateInputPool : static_main("mint", arg)
    \/ \E call \in MainCallPool : main(call[1], call[2])

SpecMain == InitMain /\ [][NextMain]_vars


\* ------------------------------------------------------------ the claims

\* An address is held through take_lock from the take_lock that succeeded to
\* the release_lock, and through borrow_global_mut_value from the borrow that
\* succeeded to the return: these are the keys of borrowed_substates_2 and the
\* members of borrowed_substates.
LockHeld(a) == a \in DOMAIN borrowed_substates_2
MutHeld(a) == a \in borrowed_substates

\* C1: once take_lock(a) has succeeded, every later take_lock(a) returns
\* Reentrancy until release_lock(a) is called, whatever else is called in
\* between.
C1_TakeLockReentrancy ==
    [][\A a \in AddressPool :
          (LockHeld(a) /\ last'.op = "take_lock" /\ last'.addr = a)
              => last'.res = "Reentrancy"]_vars

\* C2: while a is held through take_lock, borrow_global_mut_value(a) fails
\* with Reentrancy, and while a is held through borrow_global_mut_value,
\* take_lock(a) fails with Reentrancy; no address is held through both paths.
C2_OneBorrowStateMachine ==
    [][\A a \in AddressPool :
          /\ (LockHeld(a) /\ last'.op = "borrow_global_mut_value" /\ last'.addr = a)
                => last'.res = "Reentrancy"
          /\ (MutHeld(a) /\ last'.op = "take_lock" /\ last'.addr = a)
                => last'.res = "Reentrancy"
          /\ ~(a \in DOMAIN borrowed_substates_2' /\ a \in borrowed_substates')]_vars

\* C3: once borrow_global_mut_value(a) has succeeded, every later
\* borrow_global_mut_value(a) returns Reentrancy until
\* return_borrowed_global_mut_value(a, v) is called; right after that return a
\* is in up with value v, and a borrow_global_mut_value(a) that follows it
\* succeeds and yields v.
C3_BorrowMutReentrancy ==
    [][\A a \in AddressPool :
          /\ (MutHeld(a) /\ last'.op = "borrow_global_mut_value" /\ last'.addr = a)
                => last'.res = "Reentrancy"
          /\ (last.op = "return_borrowed_global_mut_value" /\ last.addr = a
                /\ last.res = "Ok" /\ last'.op = "borrow_global_mut_value" /\ last'.addr = a)
                => /\ IndexMapContains(up_substates, AddressEncode(a))
                   /\ last'.res = "Ok"
                   /\ last'.val = IndexMapGet(up_substates, AddressEncode(a))
                   /\ downed_substates' = downed_substates]_vars

\* C4: no address is at the same time in up and in borrow (held through
\* take_lock or borrow_global_mut_value).
C4_UpBorrowDisjoint ==
    \A a \in AddressPool :
        (LockHeld(a) \/ MutHeld(a)) => ~IndexMapContains(up_substates, AddressEncode(a))

\* C5: each substate faulted in from the store contributes exactly one Down:
\* a physical id is in downed only if the store holds a substate under it, and
\* then exactly once.
C5_OneDownPerSubstate ==
    \A i \in 1..Len(downed_substates) :
        /\ \E k \in DOMAIN substate_store.substates :
               substate_store.substates[k].phys_id = downed_substates[i]
        /\ \A j \in 1..Len(downed_substates) :
               downed_substates[i] = downed_substates[j] => i = j


\* The operations of a receipt of one kind, in the receipt's order.
OpsOf(ops, kind) == SelectSeq(ops, LAMBDA o : o.op = kind)
GroupRank(kind) ==
    CASE kind = "Down" -> 1 [] kind = "VirtualDown" -> 2 [] kind = "Up" -> 3
      [] kind = "VirtualUp" -> 4
Committing == phase = "live" /\ phase' = "committed"
NothingBorrowed == borrowed_substates = {} /\ DOMAIN borrowed_substates_2 = {}

\* Each Down of the receipt is the physical id of one substate of the store,
\* and the receipt holds an Up for that substate's address.
DownsHaveUps ==
    \A i \in 1..Len(receipt.substate_operations) :
        LET o == receipt.substate_operations[i] IN
        o.op = "Down" =>
            \E k \in DOMAIN substate_store.substates :
                /\ substate_store.substates[k].phys_id = o.phys_id
                /\ \E j \in 1..Len(receipt.substate_operations) :
                       /\ receipt.substate_operations[j].op = "Up"
                       /\ receipt.substate_operations[j].address = k

C7_ReceiptOrder ==
    [][Committing =>
         LET ops == receipt'.substate_operations
             downs == OpsOf(ops, "Down")
             vdowns == OpsOf(ops, "VirtualDown")
             vups == OpsOf(ops, "VirtualUp")
         IN /\ \A i, j \in 1..Len(ops) :
                   i < j => GroupRank(ops[i].op) <= GroupRank(ops[j].op)
            /\ Len(downs) = Len(downed_substates)
            /\ \A i \in 1..Len(downs) : downs[i].phys_id = downed_substates[i]
            /\ Len(vdowns) = Len(down_virtual_substates)
            /\ \A i \in 1..Len(vdowns) : vdowns[i].virtual_id = down_virtual_substates[i]
            /\ Len(vups) = Len(up_virtual_substate_space)
            /\ \A i \in 1..Len(vups) : vups[i].address = up_virtual_substate_space[i]]_vars

\* A receipt with two different Downs and at least one operation of each
\* other kind.
C7_Witness ==
    /\ phase = "committed"
    /\ Len(OpsOf(receipt.substate_operations, "Down")) >= 2
    /\ OpsOf(receipt.substate_operations, "Down")[1]
           # OpsOf(receipt.substate_operations, "Down")[2]
    /\ Len(OpsOf(receipt.substate_operations, "VirtualDown")) >= 1
    /\ Len(OpsOf(receipt.substate_operations, "Up")) >= 1
    /\ Len(OpsOf(receipt.substate_operations, "VirtualUp")) >= 1

\* C8: receipt.borrowed is empty if and only if no address is borrowed at
\* commit, through take_lock or through borrow_global_mut_value.
C8_BorrowedReported ==
    phase = "committed" => (receipt.borrowed = {} <=> NothingBorrowed)

\* C9: release_lock(a) leaves in up the value last written by write_value
\* under the lock (the value that was locked when nothing was written); a
\* borrow_global_value(a) that finds a in up returns up's value and reads no
\* store; so the borrow_global_value(a) that follows the release_lock(a)
\* returns the value last written.
C9_ReleasedValueObserved ==
    [][\A a \in AddressPool :
          /\ last' = Call("release_lock", a, <<>>, "Ok", NoValue)
                => /\ IndexMapContains(up_substates', AddressEncode(a))
                   /\ IndexMapGet(up_substates', AddressEncode(a)) = last_write[a]
          /\ (last'.op = "borrow_global_value" /\ last'.addr = a
                /\ IndexMapContains(up_substates, AddressEncode(a)))
                => /\ last'.res = "Ok"
                   /\ last'.val = IndexMapGet(up_substates, AddressEncode(a))
                   /\ read_substates' = read_substates
          /\ (last = Call("release_lock", a, <<>>, "Ok", NoValue)
                /\ last'.op = "borrow_global_value" /\ last'.addr = a)
                => (last'.res = "Ok" /\ last'.val = last_write[a])]_vars

\* take_lock(C1) faulted C1 in, write_value(C1, Component 2), release_lock(C1),
\* and borrow_global_value(C1) returned Component 2, not the store's Component 1.
C9_Witness ==
    /\ nops = 4
    /\ last = Call("borrow_global_value", C1, <<>>, "Ok", SubstateValue("Component", 2))
    /\ C1 \in DOMAIN last_write
    /\ last_write[C1] = SubstateValue("Component", 2)
    /\ downed_substates = <<PhysicalSubstateId(StoreHash, 7)>>
    /\ new_addresses = <<>>
    /\ NothingBorrowed

\* C10: for a substate a of the store touched by nothing else, after
\* take_lock(a), write_value(a, v) and release_lock(a) the receipt's
\* operations are exactly Down(p), Up(encode(a), encode(v)), p being the
\* physical id of a in the store.  (Three calls that end with a successful
\* release_lock(a), created nothing and left v as the value written under the
\* lock are these three.)
C10_FaultMutateReceipt ==
    [][\A a \in AddressPool, v \in ValuePool :
          (/\ Committing
           /\ nops = 3
           /\ last = Call("release_lock", a, <<>>, "Ok", NoValue)
           /\ new_addresses = <<>>
           /\ HasSubstate(AddressEncode(a))
           /\ a \in DOMAIN last_write
           /\ last_write[a] = v)
              => receipt'.substate_operations =
                     <<Down(get_substate(AddressEncode(a)).phys_id),
                       Up(AddressEncode(a), ValueEncode(v))>>]_vars

\* The receipt of take_lock(C1), write_value(C1, Component 2), release_lock(C1).
C10_Witness ==
    /\ phase = "committed"
    /\ nops = 3
    /\ C1 \in DOMAIN last_write
    /\ last_write[C1] = SubstateValue("Component", 2)
    /\ new_addresses = <<>>
    /\ receipt.substate_operations =
           <<Down(PhysicalSubstateId(StoreHash, 7)),
             Up(AddressEncode(C1), ValueEncode(SubstateValue("Component", 2)))>>

\* C11: create_uuid_value(v) of a package or resource value returns a fresh
\* address A (in no earlier new_addresses, not staged, not in the store) and
\* stages v under encode(A); borrow_global_value(A) right after it returns v and
\* touches neither the read cache nor anything else of the track; a commit
\* right after the creation alone yields new_addresses = [A] and exactly one
\* Up(encode(A), encode(v)), no Down and no VirtualDown.
C11_CreateStagesValue ==
    [][ /\ (last'.op = "create_uuid_value" /\ last'.res = "Ok") =>
              /\ last'.addr[1] \in {"Package", "Resource"}
              /\ last'.addr \notin CreatedAddresses
              /\ ~IndexMapContains(up_substates, AddressEncode(last'.addr))
              /\ ~HasSubstate(AddressEncode(last'.addr))
              /\ new_addresses' = Append(new_addresses, last'.addr)
              /\ IndexMapContains(up_substates', AddressEncode(last'.addr))
              /\ IndexMapGet(up_substates', AddressEncode(last'.addr)) = last'.val
        /\ (last.op = "create_uuid_value" /\ last.res = "Ok"
            /\ last'.op = "borrow_global_value" /\ last'.addr = last.addr) =>
              /\ last'.res = "Ok"
              /\ last'.val = last.val
              /\ UNCHANGED track
        /\ (last.op = "create_uuid_value" /\ last.res = "Ok" /\ nops = 1
            /\ last'.op = "to_receipt") =>
              /\ receipt'.new_addresses = <<last.addr>>
              /\ OpsOf(receipt'.substate_operations, "Up")
                     = <<Up(AddressEncode(last.addr), ValueEncode(last.val))>>
              /\ OpsOf(receipt'.substate_operations, "Down") = <<>>
              /\ OpsOf(receipt'.substate_operations, "VirtualDown") = <<>>
      ]_vars

\* A created address was borrowed right after its creation.
C11_Witness ==
    /\ last.op = "borrow_global_value"
    /\ last.res = "Ok"
    /\ nops = 2
    /\ new_addresses = <<last.addr>>
    /\ last.addr[1] \in {"Package", "Resource"}

\* The space a receipt's VirtualDown names: a space of the store by its
\* physical id, or the receipt's VirtualUp of that index.
SpaceOfParent(ops, parent) ==
    IF parent.tag = "New"
    THEN IF parent.index < Len(OpsOf(ops, "VirtualUp"))
         THEN OpsOf(ops, "VirtualUp")[parent.index + 1].address
         ELSE <<>>
    ELSE IF \E sp \in DOMAIN InitialStore.spaces : InitialStore.spaces[sp] = parent.phys_id
         THEN CHOOSE sp \in DOMAIN InitialStore.spaces : InitialStore.spaces[sp] = parent.phys_id
         ELSE <<>>

\* The receipt holds a VirtualDown of (parent, key) before the Up of the key's
\* full address.
VirtualDownBeforeUp(ops, parent_address, key) ==
    \A j \in DOMAIN ops :
        (ops[j].op = "Up" /\ ops[j].address = AddressEncode(parent_address) \o key) =>
            \E i \in 1..(j - 1) :
                /\ ops[i].op = "VirtualDown"
                /\ ops[i].virtual_id.key = key
                /\ SpaceOfParent(ops, ops[i].virtual_id.parent) = AddressEncode(parent_address)

\* C12 as stated: in every receipt, every keyed entry that was set has a
\* VirtualDown of its (parent, key) before its Up.
C12_SetKeyOrdering_AnyKey ==
    phase = "committed" =>
        \A pk \in KeyedPool : VirtualDownBeforeUp(receipt.substate_operations, pk[1], pk[2])

\* The receipt holds the Down of the stored substate of (parent, key) before the
\* Up of the key's full address, and no VirtualDown of (parent, key).
DownBeforeUp(ops, parent_address, key) ==
    /\ \A j \in DOMAIN ops :
           (ops[j].op = "Up" /\ ops[j].address = AddressEncode(parent_address) \o key) =>
               \E i \in 1..(j - 1) :
                   /\ ops[i].op = "Down"
                   /\ ops[i].phys_id = get_substate(AddressEncode(parent_address) \o key).phys_id
    /\ \A i \in DOMAIN ops :
           ~ /\ ops[i].op = "VirtualDown"
             /\ ops[i].virtual_id.key = key
             /\ SpaceOfParent(ops, ops[i].virtual_id.parent) = AddressEncode(parent_address)

\* C12, amended: in every receipt, every keyed entry that was set and that the
\* store does not hold has a VirtualDown of its (parent, key) at a position
\* strictly before its Up; one that the store holds has the Down of its stored
\* substate before its Up, and no VirtualDown.
C12_SetKeyOrdering ==
    phase = "committed" =>
        \A pk \in KeyedPool :
            IF HasSubstate(AddressEncode(pk[1]) \o pk[2])
            THEN DownBeforeUp(receipt.substate_operations, pk[1], pk[2])
            ELSE VirtualDownBeforeUp(receipt.substate_operations, pk[1], pk[2])

\* A receipt with two new keyed entries, one in a space of the store and one in
\* a space the transaction created.
C12_Witness ==
    /\ phase = "committed"
    /\ \E j \in DOMAIN receipt.substate_operations :
           /\ receipt.substate_operations[j].op = "Up"
           /\ receipt.substate_operations[j].address = AddressEncode(NFS1) \o Key2
    /\ \E j \in DOMAIN receipt.substate_operations :
           /\ receipt.substate_operations[j].op = "Up"
           /\ receipt.substate_operations[j].address = AddressEncode(KVS11) \o Key1
    /\ \E i \in DOMAIN receipt.substate_operations :
           /\ receipt.substate_operations[i].op = "VirtualDown"
           /\ receipt.substate_operations[i].virtual_id.parent.tag = "New"

\* The receipt to_receipt would give for the track t.
ReceiptOfTrack(t) ==
    [new_addresses |-> t.new_addresses,
     substate_operations |-> StoreInstructions(t.downed_substates, t.down_virtual_substates,
                                               t.up_substates, t.up_virtual_substate_space)]

\* C13: two tracks in the same state that are given the same call with equal
\* arguments commit to identical receipts (the same new_addresses and the same
\* substate operations in the same order), also when the argument is an
\* unordered collection: the value map of insert_objects_into_component.
C13_Determinism ==
    phase = "live" =>
        \A values \in ValueMapPool :
            \A r1, r2 \in InsertObjectsOutcomes(TrackNow, values, 1) :
                ReceiptOfTrack(r1) = ReceiptOfTrack(r2)

\* The id calls by name, with the kind each allocates; create_uuid_value calls
\* new_package_address or new_resource_address itself.
IdKinds == {"package", "component", "resource", "vault", "kv_store"}
IdCallOf(kind) ==
    CASE kind = "package" -> "new_package_address"
      [] kind = "component" -> "new_component_address"
      [] kind = "resource" -> "new_resource_address"
      [] kind = "vault" -> "new_vault_id"
      [] kind = "kv_store" -> "new_kv_store_id"
CallsIdOf(call, kind) ==
    \/ call.op = IdCallOf(kind)
    \/ /\ call.op = "create_uuid_value"
       /\ call.res = "Ok"
       /\ call.addr[1] = (IF kind = "package" THEN "Package"
                          ELSE IF kind = "resource" THEN "Resource" ELSE "-")

\* The ids handed out so far are pairwise distinct, within and across kinds.
IdsDistinct(allocator) ==
    \A k1, k2 \in IdKinds :
        \A n1 \in 0..(allocator[k1] - 1), n2 \in 0..(allocator[k2] - 1) :
            (NewId(TxHash, k1, n1) = NewId(TxHash, k2, n2)) => (k1 = k2 /\ n1 = n2)

C15_LockIrreversible ==
    [][ \A k \in AuthKeys :
          /\ (last'.op = "lock_auth" /\ last'.res = "Ok" /\ last'.key.method = k) =>
                 /\ resource_manager'.authorization[k].update_auth = DenyAll
                 /\ resource_manager'.authorization[k].auth =
                        resource_manager.authorization[k].auth
          /\ resource_manager.authorization[k].update_auth = DenyAll =>
                 /\ resource_manager'.authorization[k] = resource_manager.authorization[k]
                 /\ (last'.op \in {"update_auth", "lock_auth"} /\ last'.key.method = k) =>
                        last'.res # "Ok"
      ]_vars

\* The rule of Mint, created (DenyAll, MUTABLE(AllowAll)), was locked, and an
\* update_auth to AllowAll on it was then turned down.
C15_Witness ==
    /\ last.op = "update_auth"
    /\ last.key.method = "Mint"
    /\ last.key.access_rule = AccessRuleOf("AllowAll", 0)
    /\ last.res = "NotAuthorized"
    /\ resource_manager.authorization["Mint"] = [auth |-> DenyAll, update_auth |-> DenyAll]

\* The divisibility the manager's resource type has, and the condition under
\* which a fungible mint must fail.
DivisibilityNow == resource_manager.resource_type.divisibility
IsFungibleNow == resource_manager.resource_type.type = "Fungible"
MintMustFail(amount) ==
    \/ DecIsNegative(amount)
    \/ ~DecDivisibleByPow10(amount, DecimalScale - DivisibilityNow)
    \/ DecGreater(amount, MaxMintAmount)
    \/ ~IsFungibleNow

\* C16: mint_fungible(amount) fails if and only if amount < 0, or amount.raw
\* is no multiple of 10^(18-divisibility), or amount > 100_000_000_000, or the
\* resource is not fungible; a failed mint leaves total_supply as it was; the
\* mint of 100_000_000_001 with divisibility 0 fails with
\* MaxMintAmountExceeded.
C16_MintFungibleFailure ==
    [][ last'.op = "mint_fungible" =>
          /\ (last'.res # "Ok") <=> MintMustFail(last'.key)
          /\ (last'.res # "Ok") =>
                 resource_manager'.total_supply = resource_manager.total_supply
          /\ (IsFungibleNow /\ DivisibilityNow = 0
              /\ last'.key = DecAdd(MaxMintAmount, OneUnit)) =>
                 last'.res = "MaxMintAmountExceeded"
      ]_vars

\* After a successful mint, the mint of 100_000_000_001 units of a resource of
\* divisibility 0 failed with MaxMintAmountExceeded.
C16_Witness ==
    /\ last.op = "mint_fungible"
    /\ last.key = DecAdd(MaxMintAmount, OneUnit)
    /\ last.res = "MaxMintAmountExceeded"
    /\ resource_manager.resource_type = Fungible(0)
    /\ resource_manager.total_supply = MaxMintAmount

\* C17: a non-fungible mint that fails with NonFungibleAlreadyExists or
\* InvalidNonFungibleData leaves total_supply as it was and has written none of
\* its entries through set_non_fungible.
C17_FailedMintAppliesNothing ==
    [][ (/\ last'.op = "mint_non_fungibles"
         /\ last'.res \in {"NonFungibleAlreadyExists", "InvalidNonFungibleData"}) =>
            /\ resource_manager'.total_supply = resource_manager.total_supply
            /\ non_fungibles' = non_fungibles
      ]_vars

\* Bytes that decode to a value with a bucket, proof, key-value-store or vault
\* id in it.
Leaks(data) ==
    /\ ~DecodeFails(data)
    /\ \E i \in DOMAIN data : data[i][1] \in {"Bucket", "Proof", "KeyValueStore", "Vault"}
HasLeakingEntry(entries) == \E e \in entries : Leaks(e.data[1]) \/ Leaks(e.data[2])
NoLeakHeld(held) ==
    \A id \in DOMAIN held : ~Leaks(held[id].immutable_data) /\ ~Leaks(held[id].mutable_data)

C19_SupplyNonNegative_AnyBurn == ~DecIsNegative(resource_manager.total_supply)

\* C19, amended: total_supply is 0 after new(), and no mint and no burn of an
\* amount between 0 and the total_supply takes it from >= 0 to below 0.
C19_SupplyNonNegative ==
    /\ (nops = 0 => resource_manager.total_supply = DecZero)
    /\ [][ (/\ ~DecIsNegative(resource_manager.total_supply)
            /\ last'.op = "burn" =>
                   /\ ~DecIsNegative(last'.key)
                   /\ ~DecGreater(last'.key, resource_manager.total_supply)) =>
               ~DecIsNegative(resource_manager'.total_supply)
         ]_vars

\* A burn of what was minted took the total_supply back to 0.
C19_Witness ==
    /\ last.op = "burn"
    /\ last.key = OneUnit
    /\ nops = 2
    /\ resource_manager.total_supply = DecZero

\* The total_supply is a multiple of the resource's smallest unit.
SupplyDivisible(manager) ==
    manager.resource_type.type = "Fungible" =>
        DecDivisibleByPow10(manager.total_supply,
                            DecimalScale - manager.resource_type.divisibility)

\* C20 as stated: for a fungible resource of divisibility d, total_supply.raw
\* is a multiple of 10^(18-d) in every state reached from new() by mint and
\* burn calls.
C20_SupplyDivisible_AnyBurn == SupplyDivisible(resource_manager)

\* C20, amended: for a fungible resource of divisibility d, total_supply.raw is
\* a multiple of 10^(18-d) after new(), and stays one under every mint and
\* under every burn of an amount that is such a multiple.
C20_SupplyDivisible ==
    /\ (nops = 0 => SupplyDivisible(resource_manager))
    /\ [][ (/\ SupplyDivisible(resource_manager)
            /\ last'.op = "burn" =>
                   DecDivisibleByPow10(last'.key, DecimalScale - DivisibilityNow)) =>
               SupplyDivisible(resource_manager')
         ]_vars

\* One cent was burnt of a resource of divisibility 2 that had supply.
C20_Witness ==
    /\ last.op = "burn"
    /\ last.key = OneCent
    /\ resource_manager.resource_type = Fungible(2)
    /\ ~DecIsNegative(resource_manager.total_supply)
    /\ resource_manager.total_supply # DecZero

C22_NewAddressesOnce ==
    [][ /\ Len(new_addresses') >= Len(new_addresses)
        /\ SubSeq(new_addresses', 1, Len(new_addresses)) = new_addresses
        /\ \A i, j \in DOMAIN new_addresses' :
               new_addresses'[i] = new_addresses'[j] => i = j
      ]_vars

\* C23: an address held in the read cache is neither borrowed (through either
\* path) nor in up.
C23_ReadDisjoint ==
    \A a \in DOMAIN read_substates :
        /\ a \notin borrowed_substates
        /\ a \notin DOMAIN borrowed_substates_2
        /\ ~IndexMapContains(up_substates, AddressEncode(a))


\* The keys of up_substates.
UpKeys(up) == {up[i].k : i \in DOMAIN up}

\* The step is a set_key_value of the entry k: k is inserted anew, at the end.
InsertedByStep(k) ==
    /\ last'.op = "set_key_value"
    /\ last'.res = "Ok"
    /\ k = AddressEncode(last'.addr) \o last'.key

\* C27: the Ups of a receipt are in the order in which their entries were last
\* inserted into up_substates. In every step, two entries that stay in
\* up_substates and are not inserted by the step keep their order, also when
\* the step removes another entry (take_lock, borrow_global_mut_value,
\* set_key_value); an entry the step inserts is the last one; the commit emits
\* the Ups in the order of up_substates.
C27_UpInsertionOrder ==
    [][ /\ phase' = "live" =>
              /\ \A k1, k2 \in UpKeys(up_substates) \cap UpKeys(up_substates') :
                     (/\ IndexOf(up_substates, k1) < IndexOf(up_substates, k2)
                      /\ ~InsertedByStep(k1))
                         => IndexOf(up_substates', k1) < IndexOf(up_substates', k2)
              /\ \A k \in UpKeys(up_substates') :
                     (k \notin UpKeys(up_substates) \/ InsertedByStep(k))
                         => IndexOf(up_substates', k) = Len(up_substates')
        /\ (phase = "live" /\ phase' = "committed") =>
              LET ups == OpsOf(receipt'.substate_operations, "Up") IN
              /\ Len(ups) = Len(up_substates)
              /\ \A i \in DOMAIN ups : ups[i].address = up_substates[i].k
      ]_vars


\* The number of members of a sequence that satisfy Test.
CountOf(ops, Test(_)) == Len(SelectSeq(ops, Test))

\* In the operations ops, the down records of the keyed entry (parent, key):
\* the Downs of its stored substate, the VirtualDowns of the key in its space.
KeyDowns(ops, parent_address, key) ==
    IF HasSubstate(AddressEncode(parent_address) \o key)
    THEN CountOf(ops, LAMBDA o :
             /\ o.op = "Down"
             /\ o.phys_id = get_substate(AddressEncode(parent_address) \o key).phys_id)
    ELSE 0
KeyVirtualDowns(ops, parent_address, key) ==
    CountOf(ops, LAMBDA o :
        /\ o.op = "VirtualDown"
        /\ o.virtual_id.key = key
        /\ SpaceOfParent(ops, o.virtual_id.parent) = AddressEncode(parent_address))

\* C28: however often set_key_value is called on one (parent, key), one down
\* record is made in total, by the first call: a Down if the store holds the
\* key, a VirtualDown if it does not. A later call records nothing more. Every
\* call leaves one entry of the key in up_substates, with the value of the
\* call, and the receipt has exactly one Up of the key's full address, with
\* that value, and exactly one down record of the key.
C28_OneDownPerKey ==
    [][ /\ (last'.op = "set_key_value" /\ last'.res = "Ok" /\ nops' = nops + 1) =>
              LET address == AddressEncode(last'.addr) \o last'.key IN
              /\ IF <<last'.addr, last'.key>> \in DOMAIN key_writes
                 THEN /\ downed_substates' = downed_substates
                      /\ down_virtual_substates' = down_virtual_substates
                 ELSE IF HasSubstate(address)
                 THEN /\ downed_substates' =
                             Append(downed_substates, get_substate(address).phys_id)
                      /\ down_virtual_substates' = down_virtual_substates
                 ELSE /\ downed_substates' = downed_substates
                      /\ Len(down_virtual_substates') = Len(down_virtual_substates) + 1
                      /\ SubSeq(down_virtual_substates', 1, Len(down_virtual_substates))
                             = down_virtual_substates
                      /\ down_virtual_substates'[Len(down_virtual_substates')].key = last'.key
              /\ CountOf(up_substates', LAMBDA e : e.k = address) = 1
              /\ IndexMapGet(up_substates', address) = last'.val
        /\ (phase = "live" /\ phase' = "committed") =>
              \A pk \in KeyedPool :
                  LET address == AddressEncode(pk[1]) \o pk[2]
                      ops == receipt'.substate_operations
                  IN pk \in DOMAIN key_writes =>
                         /\ CountOf(ops, LAMBDA o : o.op = "Up" /\ o.address = address) = 1
                         /\ \E i \in DOMAIN ops :
                                /\ ops[i].op = "Up"
                                /\ ops[i].address = address
                                /\ ops[i].value = ValueEncode(key_writes[pk].val)
                         /\ KeyDowns(ops, pk[1], pk[2])
                                = (IF HasSubstate(address) THEN 1 ELSE 0)
                         /\ KeyVirtualDowns(ops, pk[1], pk[2])
                                = (IF HasSubstate(address) THEN 0 ELSE 1)
      ]_vars

\* The second set_key_value of one key that the store does not hold: one
\* VirtualDown in all, one entry in up_substates, with the second value.
C28_Witness ==
    /\ last.op = "set_key_value"
    /\ last.res = "Ok"
    /\ <<last.addr, last.key>> \in DOMAIN key_writes
    /\ key_writes[<<last.addr, last.key>>].calls = 2
    /\ ~HasSubstate(AddressEncode(last.addr) \o last.key)
    /\ Len(down_virtual_substates) = 1
    /\ downed_substates = <<>>
    /\ IndexMapGet(up_substates, AddressEncode(last.addr) \o last.key) = last.val


\* The spaces created so far in the transaction.
CreatedSpaces == {up_virtual_substate_space[i] : i \in DOMAIN up_virtual_substate_space}

\* C29: the parent of a VirtualDown is New(i) exactly when the space of the key
\* was created in this transaction, by create_key_space or by create_uuid_value
\* of a non-fungible resource, and i is then the position, from 0, of the
\* VirtualUp of that space among the VirtualUps of the receipt; otherwise it is
\* Exists(id), id the physical id of the space in the store. An index once
\* handed out stays right until the commit: the created spaces keep their
\* places, and the receipt has them, and the VirtualDowns, in that order.
C29_VirtualDownParent ==
    [][ /\ (last'.op = "create_key_space" /\ nops' = nops + 1) =>
              AddressEncode(last'.addr) \in {up_virtual_substate_space'[i] :
                                                i \in DOMAIN up_virtual_substate_space'}
        /\ (/\ last'.op = "create_uuid_value" /\ last'.res = "Ok" /\ nops' = nops + 1
            /\ last'.val.kind = "Resource" /\ resource_type(last'.val) = "NonFungible") =>
              AddressEncode(NonFungibleSet(last'.addr[2]))
                  \in {up_virtual_substate_space'[i] : i \in DOMAIN up_virtual_substate_space'}
        /\ (/\ last'.op = "set_key_value" /\ last'.res = "Ok" /\ nops' = nops + 1
            /\ Len(down_virtual_substates') = Len(down_virtual_substates) + 1) =>
              LET space == AddressEncode(last'.addr)
                  id == down_virtual_substates'[Len(down_virtual_substates')]
              IN /\ id.key = last'.key
                 /\ IF space \in CreatedSpaces
                    THEN /\ id.parent.tag = "New"
                         /\ id.parent.index + 1 \in DOMAIN up_virtual_substate_space
                         /\ up_virtual_substate_space[id.parent.index + 1] = space
                    ELSE /\ id.parent.tag = "Exists"
                         /\ space \in DOMAIN InitialStore.spaces
                         /\ id.parent.phys_id = InitialStore.spaces[space]
        /\ phase' = "live" =>
              /\ Len(up_virtual_substate_space') >= Len(up_virtual_substate_space)
              /\ SubSeq(up_virtual_substate_space', 1, Len(up_virtual_substate_space))
                     = up_virtual_substate_space
              /\ Len(down_virtual_substates') >= Len(down_virtual_substates)
              /\ SubSeq(down_virtual_substates', 1, Len(down_virtual_substates))
                     = down_virtual_substates
        /\ (phase = "live" /\ phase' = "committed") =>
              LET ops == receipt'.substate_operations IN
              /\ [i \in DOMAIN OpsOf(ops, "VirtualUp") |-> OpsOf(ops, "VirtualUp")[i].address]
                     = up_virtual_substate_space
              /\ [i \in DOMAIN OpsOf(ops, "VirtualDown") |->
                      OpsOf(ops, "VirtualDown")[i].virtual_id] = down_virtual_substates
              /\ \A i \in DOMAIN ops :
                     (ops[i].op = "VirtualDown" /\ ops[i].virtual_id.parent.tag = "New")
                         => ops[i].virtual_id.parent.index < Len(OpsOf(ops, "VirtualUp"))
      ]_vars

\* A key was set in the second space the transaction created: its VirtualDown
\* names the space as New(1).
C29_Witness ==
    /\ last.op = "set_key_value"
    /\ last.res = "Ok"
    /\ Len(up_virtual_substate_space) = 2
    /\ down_virtual_substates # <<>>
    /\ down_virtual_substates[Len(down_virtual_substates)] = VirtualSubstateId(New(1), last.key)
    /\ up_virtual_substate_space[2] = AddressEncode(last.addr)


\* The variant of the entries of a keyed parent.
KindOfParent(parent_address) ==
    IF parent_address[1] = "NonFungibleSet" THEN "NonFungible" ELSE "KeyValueStoreEntry"

C31_ReadsOwnWrites ==
    [][ (last'.op = "borrow_global_value" /\ nops' = nops + 1) =>
            LET a == last'.addr
                k == AddressEncode(last'.addr)
            IN
            /\ IndexMapContains(up_substates, k) =>
                   (last'.res = "Ok" /\ last'.val = IndexMapGet(up_substates, k))
            /\ (a \in DOMAIN borrowed_substates_2 /\ ~IndexMapContains(up_substates, k)) =>
                   (last'.res = "Ok" /\ last'.val = last_write[a])
            /\ last'.res = "NotFound" =>
                   /\ ~IndexMapContains(up_substates, k)
                   /\ a \notin DOMAIN borrowed_substates_2
                   /\ a \notin borrowed_substates
                   /\ ~HasSubstate(k)
      ]_vars


\* The rule pair the claim gives an auth key of a new manager.
ExpectedRule(auth, k) ==
    IF k \in DOMAIN auth
    THEN [auth |-> MethodAuthorization(auth[k][1][2], auth[k][1][3]),
          update_auth |-> IF auth[k][2] = LOCKED
                          THEN DenyAll
                          ELSE MethodAuthorization(auth[k][2][2][2], auth[k][2][2][3])]
    ELSE [auth |-> IF k \in {"Withdraw", "Deposit"} THEN AllowAll ELSE DenyAll,
          update_auth |-> DenyAll]

\* C32: ResourceManager::new gives the authorization table exactly the six auth
\* keys; a key without an override has auth DenyAll (Mint, Burn,
\* UpdateMetadata, UpdateNonFungibleData) or AllowAll (Withdraw, Deposit) and
\* update_auth DenyAll; an overridden key has the auth given and update_auth
\* DenyAll if declared LOCKED, else the converted mutability rule; total_supply
\* starts at 0. No later update_auth or lock_auth adds or removes a key.
C32_NewAuthorization ==
    /\ \A auth \in AuthPool, type \in ResourceTypePool :
           LET new == ResourceManagerNew(type, EmptyMap, auth) IN
           /\ DOMAIN new.authorization = AuthKeys
           /\ Cardinality(DOMAIN new.authorization) = 6
           /\ \A k \in AuthKeys : new.authorization[k] = ExpectedRule(auth, k)
           /\ new.total_supply = DecZero
           /\ new.resource_type = type
    /\ DOMAIN resource_manager.authorization = AuthKeys
    /\ nops = 0 =>
           /\ resource_manager.total_supply = DecZero
           /\ \E auth \in AuthPool :
                  \A k \in AuthKeys : resource_manager.authorization[k] = ExpectedRule(auth, k)

\* A new manager with a mutable Mint override, a LOCKED Withdraw override and
\* four defaults.
C32_Witness ==
    /\ nops = 0
    /\ resource_manager.authorization["Withdraw"] =
           [auth |-> MethodAuthorization("Protected", 2), update_auth |-> DenyAll]
    /\ resource_manager.authorization["Mint"] =
           [auth |-> AllowAll, update_auth |-> MethodAuthorization("Protected", 1)]
    /\ resource_manager.authorization["Deposit"] = [auth |-> AllowAll, update_auth |-> DenyAll]
    /\ resource_manager.authorization["Burn"] = [auth |-> DenyAll, update_auth |-> DenyAll]


\* The method names callers ask about: the manager's, the vaults', one of neither.
MethodNamePool ==
    DOMAIN MethodTable \cup DOMAIN VaultMethodTable \cup {"update_auth", "lock_auth", "transfer"}

\* The authorization of a name in a method table, as the claim resolves it.
ResolvedIn(table, method_name) ==
    IF method_name \notin DOMAIN table
    THEN Unsupported
    ELSE IF table[method_name][1] = "Public"
    THEN AllowAll
    ELSE resource_manager.authorization[table[method_name][2]].auth

\* C33: the authorization of a call is resolved from the manager's current
\* state: for update_auth and lock_auth on auth key k, the update_auth of rule
\* k as it is now, never its auth; for a name mapped to Protected(k), the auth
\* of rule k as it is now; for a Public name, AllowAll; for any other name,
\* Unsupported. get_auth and get_consuming_bucket_auth resolve in the method
\* table, get_vault_auth in the vault method table.
C33_AuthResolution ==
    /\ \A k \in AuthKeys, rule \in AccessRulePool :
           /\ get_auth("update_auth", ResourceManagerUpdateAuthInput(k, rule))
                  = resource_manager.authorization[k].update_auth
           /\ get_auth("lock_auth", ResourceManagerLockAuthInput(k))
                  = resource_manager.authorization[k].update_auth
    /\ \A name \in MethodNamePool \ {"update_auth", "lock_auth"} :
           get_auth(name, ResourceManagerLockAuthInput("Mint"))
               = ResolvedIn(resource_manager.method_table, name)
    /\ \A name \in MethodNamePool :
           /\ get_consuming_bucket_auth(name) = ResolvedIn(resource_manager.method_table, name)
           /\ get_vault_auth(name) = ResolvedIn(resource_manager.vault_method_table, name)
    /\ resource_manager.method_table = MethodTable
    /\ resource_manager.vault_method_table = VaultMethodTable
    /\ get_auth("mint", ResourceManagerLockAuthInput("Mint"))
           = resource_manager.authorization["Mint"].auth
    /\ get_auth("total_supply", ResourceManagerLockAuthInput("Mint")) = AllowAll
    /\ get_auth("take", ResourceManagerLockAuthInput("Mint")) = Unsupported
    /\ get_vault_auth("take") = resource_manager.authorization["Withdraw"].auth
    /\ get_vault_auth("mint") = Unsupported

\* The auth of Mint was replaced by a rule that differs from its update_auth:
\* mint is now guarded by the new rule, update_auth of Mint by the old guard.
C33_Witness ==
    /\ last.op = "update_auth"
    /\ last.res = "Ok"
    /\ last.key.method = "Mint"
    /\ resource_manager.authorization["Mint"].auth = convert_auth(last.key.access_rule)
    /\ resource_manager.authorization["Mint"].auth
           # resource_manager.authorization["Mint"].update_auth
    /\ get_auth("mint", last.key) = convert_auth(last.key.access_rule)
    /\ get_auth("update_auth", last.key) = resource_manager.authorization["Mint"].update_auth


\* Everything of the manager but the rule of auth key k is as it was.
OnlyRuleChanged(k) ==
    /\ \A k2 \in AuthKeys \ {k} :
           resource_manager'.authorization[k2] = resource_manager.authorization[k2]
    /\ DOMAIN resource_manager'.authorization = DOMAIN resource_manager.authorization
    /\ resource_manager'.method_table = resource_manager.method_table
    /\ resource_manager'.vault_method_table = resource_manager.vault_method_table
    /\ resource_manager'.metadata = resource_manager.metadata
    /\ resource_manager'.resource_type = resource_manager.resource_type
    /\ resource_manager'.total_supply = resource_manager.total_supply
    /\ non_fungibles' = non_fungibles

\* C34: update_auth(k, rule) changes only the auth of rule k, to the converted
\* rule, and lock_auth(k) changes only the update_auth of rule k, to DenyAll:
\* the other field of rule k, the rules of the other auth keys, the method
\* tables, metadata, resource_type and total_supply stay as they were.
C34_AuthFrame ==
    [][ /\ (last'.op = "update_auth" /\ last'.res = "Ok" /\ nops' = nops + 1) =>
              /\ OnlyRuleChanged(last'.key.method)
              /\ resource_manager'.authorization[last'.key.method].update_auth
                     = resource_manager.authorization[last'.key.method].update_auth
              /\ resource_manager'.authorization[last'.key.method].auth
                     = MethodAuthorization(last'.key.access_rule[2], last'.key.access_rule[3])
        /\ (last'.op = "lock_auth" /\ last'.res = "Ok" /\ nops' = nops + 1) =>
              /\ OnlyRuleChanged(last'.key.method)
              /\ resource_manager'.authorization[last'.key.method].auth
                     = resource_manager.authorization[last'.key.method].auth
              /\ resource_manager'.authorization[last'.key.method].update_auth = DenyAll
      ]_vars

\* A rule whose auth is open was locked: its auth stays open.
C34_Witness ==
    /\ last.op = "lock_auth"
    /\ last.res = "Ok"
    /\ resource_manager.authorization[last.key.method].auth = AllowAll
    /\ resource_manager.authorization[last.key.method].update_auth = DenyAll
    /\ \E k \in AuthKeys \ {last.key.method} :
           resource_manager.authorization[k].update_auth # DenyAll


\* Everything of the manager but total_supply is as it was.
OnlySupplyChanged ==
    /\ resource_manager'.authorization = resource_manager.authorization
    /\ resource_manager'.method_table = resource_manager.method_table
    /\ resource_manager'.vault_method_table = resource_manager.vault_method_table
    /\ resource_manager'.metadata = resource_manager.metadata
    /\ resource_manager'.resource_type = resource_manager.resource_type

\* C37: a successful mint_fungible(amount) increases total_supply by exactly
\* amount; a successful mint_non_fungibles(entries) increases it by exactly the
\* number of entries and writes one non-fungible per entry, under the entry's
\* id and with the entry's data, and no other; a successful mint changes
\* nothing else of the manager.
C37_MintIncreasesSupply ==
    [][ /\ (last'.op = "mint_fungible" /\ last'.res = "Ok" /\ nops' = nops + 1) =>
              /\ DecSub(resource_manager'.total_supply, resource_manager.total_supply)
                     = last'.key
              /\ OnlySupplyChanged
              /\ non_fungibles' = non_fungibles
        /\ (last'.op = "mint_non_fungibles" /\ last'.res = "Ok" /\ nops' = nops + 1) =>
              LET entries == last'.key
                  ids == {e.id : e \in entries}
              IN
              /\ DecSub(resource_manager'.total_supply, resource_manager.total_supply)
                     = <<0, 0, Cardinality(entries), 0>>
              /\ OnlySupplyChanged
              /\ Cardinality(ids) = Cardinality(entries)
              /\ ids \cap DOMAIN non_fungibles = {}
              /\ DOMAIN non_fungibles' = DOMAIN non_fungibles \cup ids
              /\ \A id \in DOMAIN non_fungibles : non_fungibles'[id] = non_fungibles[id]
              /\ \A e \in entries :
                     non_fungibles'[e.id] =
                         [immutable_data |-> e.data[1], mutable_data |-> e.data[2]]
      ]_vars

\* Two non-fungibles were minted in one call: the supply is two and two
\* non-fungibles are held.
C37_Witness ==
    /\ last.op = "mint_non_fungibles"
    /\ last.res = "Ok"
    /\ Cardinality(last.key) = 2
    /\ resource_manager.total_supply = <<0, 0, 2, 0>>
    /\ Cardinality(DOMAIN non_fungibles) = 2

\* One cent was minted of a resource of divisibility 2 that had a supply.
C37_WitnessFungible ==
    /\ last.op = "mint_fungible"
    /\ last.res = "Ok"
    /\ last.key = OneCent
    /\ DecGreater(resource_manager.total_supply, OneCent)


\* C38: an operation on an address that is not borrowed creates no overlay
\* entry. write_value of an address not locked through take_lock returns
\* NotFound and leaves every map of the track as it was; release_lock and
\* return_borrowed_global_mut_value of an address not borrowed through their
\* own path are fatal and leave the track as it was; a take_lock or
\* borrow_global_mut_value that returns NotFound or Reentrancy leaves every
\* map of the track as it was.
C38_FailedCallsLeaveTrack ==
    [][ nops' = nops + 1 =>
          /\ (last'.op = "write_value" /\ last'.addr \notin DOMAIN borrowed_substates_2) =>
                 (last'.res = "NotFound" /\ track' = track)
          /\ (last'.op = "release_lock" /\ last'.addr \notin DOMAIN borrowed_substates_2) =>
                 (last'.res = "panic" /\ phase' = "panicked" /\ track' = track)
          /\ (/\ last'.op = "return_borrowed_global_mut_value"
              /\ last'.addr \notin borrowed_substates) =>
                 (last'.res = "panic" /\ phase' = "panicked" /\ track' = track)
          /\ (/\ last'.op \in {"take_lock", "borrow_global_mut_value"}
              /\ last'.res \in {"NotFound", "Reentrancy"}) =>
                 track' = track
      ]_vars

\* write_value of an address that is not locked returned NotFound while
\* another address is locked and the overlay holds an entry.
C38_Witness ==
    /\ last.op = "write_value"
    /\ last.res = "NotFound"
    /\ last.addr \notin DOMAIN borrowed_substates_2
    /\ borrowed_substates_2 # EmptyMap
    /\ up_substates # EmptyMap


\* The variant of SubstateValue that the kind of an address denotes.
VariantOf(address) ==
    CASE address[1] = "Package" -> "Package"
      [] address[1] \in {"GlobalComponent", "LocalComponent"} -> "Component"
      [] address[1] = "Resource" -> "Resource"
      [] address[1] = "Vault" -> "Vault"
      [] address[1] = "NonFungibleSet" -> "NonFungible"
      [] address[1] = "KeyValueStore" -> "KeyValueStoreEntry"

\* C40: in every reachable state of the track, the value held for an address
\* in up_substates or in borrowed_substates_2 is of the variant the kind of
\* the address denotes, and the value held for a key of a keyed parent is of
\* the variant of the parent's kind, whatever values the callers passed.
C40_VariantMatchesKind ==
    /\ \A a \in AddressPool \cup CreatedAddresses :
          /\ a \in DOMAIN borrowed_substates_2 =>
                 borrowed_substates_2[a].kind = VariantOf(a)
          /\ IndexMapContains(up_substates, AddressEncode(a)) =>
                 IndexMapGet(up_substates, AddressEncode(a)).kind = VariantOf(a)
    /\ \A pk \in KeyedPool :
          IndexMapContains(up_substates, AddressEncode(pk[1]) \o pk[2]) =>
              IndexMapGet(up_substates, AddressEncode(pk[1]) \o pk[2]).kind = VariantOf(pk[1])


\* The system API calls the step made.
CallsOfStep == SubSeq(native_calls', Len(native_calls) + 1, Len(native_calls'))

\* How often the step made the call.
TimesInStep(call) == Cardinality({i \in DOMAIN CallsOfStep : CallsOfStep[i] = call})

\* C35: every call of ResourceManager::main borrows the manager exactly once
\* and returns it before main completes, whatever the outcome: after main the
\* manager is not borrowed.
C35_MainReturnsManager ==
    [][ (native_calls # <<>> /\ nops' = nops + 1) =>
            /\ TimesInStep(<<"borrow_native_value", ManagerId>>) = 1
            /\ TimesInStep(<<"return_native_value", ManagerId>>) = 1
            /\ CallsOfStep[1] = <<"borrow_native_value", ManagerId>>
            /\ CallsOfStep[Len(CallsOfStep)] = <<"return_native_value", ManagerId>>
      ]_vars


\* C36: static_main("create") calls native_create for the manager; then, only
\* if mint_params is present, borrows the manager, mints, returns the manager
\* and calls native_create for the bucket; then native_globalize. The resource
\* is globalized only if every earlier step succeeded, and then the manager is
\* not borrowed; the result is (resource_address, Some(bucket_id)) if
\* mint_params was present and (resource_address, None) if not.
C36_CreateOrder ==
    [][ (native_calls = <<>> /\ nops' = nops + 1 /\ last'.op # "static_main") =>
            LET manager == <<"native_create", "Resource">>
                globalize == <<"native_globalize", ManagerId>>
                \* a create that called mint is recorded as the mint it made
                present == last'.op \in {"mint_fungible", "mint_non_fungibles"}
            IN
            /\ (last'.op = "create" /\ last'.res = "Ok") =>
                   last'.key.input.mint_params.type = "None"
            /\ last'.res = "Ok" =>
                   /\ native_calls' =
                          IF present
                          THEN <<manager, <<"borrow_native_value", ManagerId>>,
                                 <<"return_native_value", ManagerId>>,
                                 <<"native_create", "Bucket">>, globalize>>
                          ELSE <<manager, globalize>>
                   /\ rtn'[1] = "Tuple"
                   /\ rtn'[2] = NewResource
                   /\ (rtn'[3][1] = "Some") <=> present
                   /\ (rtn'[3][1] = "None") <=> ~present
                   /\ present =>
                          DecGreater(resource_manager'.total_supply, DecZero)
                   /\ ~present => UNCHANGED <<resource_manager, non_fungibles>>
            /\ TimesInStep(globalize) > 0 =>
                   /\ last'.res = "Ok"
                   /\ ~NativeBorrowed(ManagerId)'
                   /\ native_calls'[Len(native_calls')] = globalize
            /\ last'.res # "Ok" =>
                   /\ TimesInStep(globalize) = 0
                   /\ rtn' = <<>>
      ]_vars

\* A create with mint parameters succeeded: the bucket was created after the
\* manager was returned, the resource globalized last, and a bucket returned.
C36_Witness ==
    /\ Len(native_calls) = 5
    /\ native_calls[3] = <<"return_native_value", ManagerId>>
    /\ native_calls[4] = <<"native_create", "Bucket">>
    /\ native_calls[5] = <<"native_globalize", ManagerId>>
    /\ rtn = <<"Tuple", NewResource, <<"Some", <<"Bucket", 4>>>>>>
    /\ Cardinality(DOMAIN non_fungibles) = 2


\* C39: update_non_fungible_data(id, bytes) succeeds only if the bytes decode
\* to data that holds no bucket, proof, key-value-store or vault id and the
\* non-fungible exists; a success changes the mutable data of that non-fungible
\* and nothing else (not its immutable data, no other non-fungible, not the
\* manager and its total_supply); a failure writes no non-fungible.
C39_UpdateNonFungibleData ==
    [][ (last'.op = "update_non_fungible_data" /\ nops' = nops + 1) =>
            IF last'.res = "InvalidRequestData"
            THEN UNCHANGED <<resource_manager, non_fungibles>>
            ELSE LET id == last'.key.id
                     data == last'.key.data
                 IN
                 /\ last'.res = "Ok" =>
                        /\ \A j \in DOMAIN data :
                               data[j][1] \notin {"Invalid", "Bucket", "Proof",
                                                  "KeyValueStore", "Vault"}
                        /\ id \in DOMAIN non_fungibles
                        /\ DOMAIN non_fungibles' = DOMAIN non_fungibles
                        /\ non_fungibles'[id].mutable_data = data
                        /\ non_fungibles'[id].immutable_data = non_fungibles[id].immutable_data
                        /\ \A other \in DOMAIN non_fungibles \ {id} :
                               non_fungibles'[other] = non_fungibles[other]
                        /\ resource_manager' = resource_manager
                 /\ last'.res # "Ok" =>
                        /\ last'.res \in {"InvalidNonFungibleData", "NonFungibleNotFound"}
                        /\ UNCHANGED <<resource_manager, non_fungibles>>
      ]_vars

\* The mutable data of non-fungible "a" was replaced; its immutable data and
\* non-fungible "b" are as minted.
C39_Witness ==
    /\ last.op = "update_non_fungible_data"
    /\ last.res = "Ok"
    /\ last.key.id = "a"
    /\ DOMAIN non_fungibles = {"a", "b"}
    /\ non_fungibles["a"] = NonFungibleNew(PlainData, <<<<"U32", 9>>>>)
    /\ non_fungibles["b"] = NonFungibleNew(PlainData, PlainData)
    /\ resource_manager.total_supply = <<0, 0, 2, 0>>

====
